---------------------------- MODULE Spec2Model ----------------------------
(***************************************************************************)
(* Verification model of the LumixEngine scene-component layer:            *)
(*   - the ragdoll bone tree of src/physics/physics_scene.cpp              *)
(*   - the rigid actors, heightfield, controller and joint of the same     *)
(*     file, the SDK objects they own, and the versioned deserialization   *)
(*   - the animation controller runtime and the event stream of            *)
(*     src/animation/animation_scene.cpp                                   *)
(*   - the property animator and the inverse-kinematics solve of the       *)
(*     same file, the IK chains of a controller update, the sampling jobs  *)
(*     of updateAnimables and the time wrap of updateAnimable              *)
(*   - the queued forces, the collision layers and filter, and the         *)
(*     component handles of the rigid actors of physics_scene.cpp          *)
(***************************************************************************)
EXTENDS Integers, Sequences, FiniteSets, TLC

(***************************************************************************)
(* Bounds                                                                  *)
(***************************************************************************)
NBones == 3        \* bones of the source skeleton (Model), indices 0..NBones-1
MaxAlloc == 4      \* RagdollBone allocations per behaviour

NULL == 0          \* nullptr for RagdollBone*
NO_JOINT == "none" \* parent_joint == nullptr
FIXED == "fixed"        \* physx::PxJointConcreteType::eFIXED
REVOLUTE == "revolute"  \* physx::PxJointConcreteType::eREVOLUTE
SPHERICAL == "spherical"  \* physx::PxJointConcreteType::eSPHERICAL
JointTypes == {FIXED, REVOLUTE, SPHERICAL}

SkelIdx == 0 .. (NBones - 1)
BoneIds == 1 .. MaxAlloc

(***************************************************************************)
(* Ragdoll state                                                           *)
(***************************************************************************)
VARIABLES
    skel,      \* Model bones: skel[i] = parent_idx of skeleton bone i (-1: none)
    bones,     \* heap of RagdollBone records, by allocation id
    live,      \* allocation ids that are allocated and not deleted
    root,      \* Ragdoll::root
    nalloc,    \* number of LUMIX_NEW(RagdollBone) so far
    uaf,       \* a handler wrote through a pointer to a deleted bone
    rfault,    \* a ragdoll handler dereferenced nullptr
    reloaded,  \* history: the ragdoll before the last save and load, and its assertions
    torn,      \* history: the ragdoll the last destroyComponent tore down, and its releases
    connected, \* history: the calls of connect in the last createRagdollBone
    disconnected, \* history: the ragdoll as the disconnect of the last destroyRagdollBone left it
    rlast      \* history: the last ragdoll operation, the bone it was given,
               \* for a create the parent the skeleton calls for, for a
               \* destroy the parent and first child the bone had

rvars == <<skel, bones, live, root, nalloc, uaf, rfault, reloaded, connected, disconnected,
          torn, rlast>>

\* the rigid actors, heightfield, character controller and joint of the
\* physics scene, and the SDK objects they wrap
VARIABLES
    m_actors,       \* m_actors and m_dynamic_actors: per entity [exists, mesh, physx_actor, dynamic]
    m_terrains,     \* m_terrains[0]: [exists, m_actor]
    m_controllers,  \* m_controllers, newest slot: [exists, m_controller] (exists: !m_is_free)
    m_joints,       \* m_joints of entity 1: [exists, physx]
    sdk,            \* every SDK object: "unused", "alive", "released", "twice" (released twice)
    pfault,         \* "none", or the operation that dereferenced a null SDK pointer
    load,           \* the last deserialize: version and shape of the stream, the reads made
    animator,       \* the PropertyAnimator: [animation (curves[0]: frames, values), time]
    prop,           \* history: the value the last updatePropertyAnimators set
    ik_solve        \* an IK chain on a pose: the positions of its bones, the target, the
                    \* iteration count; history: the pose before updateIK, the clamped target

\* the animables and their sampling jobs
VARIABLES
    anim_jobs,      \* m_animables.size() and the jobs of updateAnimables: the jobs that
                    \* have run, how often each index was sampled, the indices at or
                    \* beyond the size that a job passed to m_animables.at
    wrap,           \* updateAnimable at its time-wrapping loop: t, l and the loop's position
    ik_tick,        \* controller.inverse_kinematics[0..3] (weight, bones, target), the pose
                    \* of the model instance; history: the calls of updateIK in the last
                    \* updateController with the pose before and after each
    forces,         \* the physics scene's m_is_game_running and m_queued_forces; history:
                    \* how often addForce was called for each queued force, and what the
                    \* last update found in the queue
    layers,         \* m_layers_count and the layer of an actor, a controller and a
                    \* terrain; shift: updateFilterData shifted by a negative layer
    m_collision_filter, \* m_collision_filter[layer]: the set bits; history: the last
                    \* setLayersCanCollide
    actor_keys      \* the keys of m_actors (entity indices); history: the last
                    \* createComponent of an actor type and the handle it returned

xvars == <<anim_jobs, wrap, ik_tick, forces, layers, m_collision_filter, actor_keys>>

pvars == <<m_actors, m_terrains, m_controllers, m_joints, sdk, pfault, load, animator, prop,
          ik_solve, xvars>>

\* the animation scene
VARIABLES
    controllers,      \* m_controllers: per entity [exists, resource, root, input, animations]
    shared_parent,    \* m_shared_controllers: parent of the follower on each entity
    res_state,        \* Resource::m_current_state of each controller resource
    is_game_running,  \* m_is_game_running
    event_stream,     \* m_event_stream: the bytes of the blob
    stream_ids,       \* history: [at, reads] of every record that is in the blob
    nodes_live,       \* ComponentInstance objects created and not destroyed
    redelivered,      \* history: the last operation read a record that had been read
    dropped,          \* history: the last operation cleared a record that was never read
    afault,           \* "none", or the fault that ended the program
    faulted_in,       \* history: the operation that faulted
    stale_use,        \* history: a destroyed node was updated or asked for a pose
    last_upd,         \* history: the update and fillPose of the last operation
    last_drain,       \* history: what the last drain of a queued stream read
    last_torn,        \* history: the controllers whose root the last operation deleted
    last_call,        \* history: the script or editor call the last operation was
    enter_count,      \* history: how often enter was called on each live node
    unentered_use,    \* history: a live node was updated or asked for a pose before enter
    last_tick         \* history: the stages the last operation ran of a tick, in order

avars == <<controllers, shared_parent, res_state, is_game_running, event_stream,
           stream_ids, nodes_live, redelivered, dropped, afault, faulted_in,
           stale_use, last_upd, last_drain, last_torn, last_call, enter_count,
           unentered_use, last_tick>>

\* struct RagdollBone (navigation fields and joint); content of a deleted or
\* not yet allocated cell
BlankBone ==
    [pose_bone_idx |-> -1, parent |-> NULL, child |-> NULL, next |-> NULL,
     prev |-> NULL, parent_joint |-> NO_JOINT]

\* the pose_bone_idx of the bone p points to, -1 for nullptr
IdxOf(b, p) == IF p = NULL THEN -1 ELSE b[p].pose_bone_idx

\* what a save keeps of the ragdoll: of every bone its pose_bone_idx, the
\* bones its parent, child, next and prev point to, and its joint
Shape(b, l) ==
    {[idx |-> b[x].pose_bone_idx, parent |-> IdxOf(b, b[x].parent),
      child |-> IdxOf(b, b[x].child), next |-> IdxOf(b, b[x].next),
      prev |-> IdxOf(b, b[x].prev), joint |-> b[x].parent_joint] : x \in l}

\* the bones of l met from p along next in the heap b, up to n steps
RECURSIVE ChainFrom(_, _, _, _)
ChainFrom(b, l, p, n) ==
    IF p = NULL \/ p \notin l \/ n = 0 THEN {}
    ELSE {p} \cup ChainFrom(b, l, b[p].next, n - 1)

\* disconnected when the operation was no destroyRagdollBone
NoDisconnect ==
    [bone |-> NULL, was_parent |-> NULL, children |-> {},
     b |-> [x \in BoneIds |-> BlankBone], root |-> NULL]

\* torn when the operation was no destroyComponent
NoTeardown ==
    [done |-> FALSE, rel |-> <<>>, b |-> [x \in BoneIds |-> BlankBone], live |-> {},
     root |-> NULL]

\* reloaded when the operation was no save and load
NoReload == [count |-> 0, shape |-> {}, asserted |-> FALSE]

\* the heap a handler works on: h.b bones, h.live, h.root, and the flags
\* h.uaf and h.fault
Heap(b, l, r, u, f) ==
    [b |-> b, live |-> l, root |-> r, uaf |-> u, fault |-> f, conn |-> <<>>, rel |-> <<>>]

\* store through a RagdollBone*: p->field = v; a store through a pointer to a
\* deleted bone lands in freed memory
SetField(h, p, field, v) ==
    IF p \in h.live
    THEN [h EXCEPT !.b[p] = [@ EXCEPT ![field] = v]]
    ELSE [h EXCEPT !.uaf = TRUE]

\* PhysicsSceneImpl::changeRagdollBoneJoint: releases the old joint and
\* creates a joint of the given type between child->parent and child
changeRagdollBoneJoint(h, child, type) ==
    IF h.b[child].parent = NULL
    THEN [h EXCEPT !.fault = TRUE]   \* child->parent->actor
    ELSE SetField(h, child, "parent_joint",
                  IF type \in JointTypes THEN type ELSE NO_JOINT)

\* if (p->next) p->next->prev = p;
LinkPrevOfNext(h, p) ==
    IF h.b[p].next # NULL THEN SetField(h, h.b[p].next, "prev", p) ELSE h

\* p->next = ragdoll.root;
SetNextToRoot(h, p) == SetField(h, p, "next", h.root)

\* child->next is left on the old next sibling
SetNextToFirstChild_Keep(h, child, parent) == h

\* child->next = parent->child;
SetNextToFirstChild(h, child, parent) == SetField(h, child, "next", h.b[parent].child)

\* ragdoll.root = p;
SetRoot(h, p) == [h EXCEPT !.root = p]

\* if (parent && parent->child == bone) parent->child = bone->next;
AdvanceParentChild(h, bone) ==
    IF h.b[bone].parent # NULL /\ h.b[h.b[bone].parent].child = bone
    THEN SetField(h, h.b[bone].parent, "child", h.b[bone].next)
    ELSE h

\* ragdoll.root is left on the bone that is unlinked
AdvanceRoot_Keep(h, bone) == h

\* if (ragdoll.root == bone) ragdoll.root = bone->next;
AdvanceRoot(h, bone) ==
    IF h.root = bone THEN [h EXCEPT !.root = h.b[bone].next] ELSE h

\* if (bone->prev) bone->prev->next = bone->next;
UnlinkFromPrev(h, bone) ==
    IF h.b[bone].prev # NULL
    THEN SetField(h, h.b[bone].prev, "next", h.b[bone].next)
    ELSE h

\* if (bone->next) bone->next->prev = bone->prev;
UnlinkFromNext(h, bone) ==
    IF h.b[bone].next # NULL
    THEN SetField(h, h.b[bone].next, "prev", h.b[bone].prev)
    ELSE h

\* if (child->parent_joint) child->parent_joint->release();
\* child->parent_joint = nullptr;
ReleaseJoint(h, child) == SetField(h, child, "parent_joint", NO_JOINT)

\* the if (parent) branch of disconnect's loop: child becomes the first child
\* of parent and gets a new joint
ReparentChild(h, child, parent) ==
    changeRagdollBoneJoint(
        SetField(
            SetField(
                LinkPrevOfNext(
                    SetField(SetNextToFirstChild(ReleaseJoint(h, child), child, parent),
                             child, "prev", NULL),
                    child),
                parent, "child", child),
            child, "parent", parent),
        child, REVOLUTE)

\* the else branch of disconnect's loop: child becomes the head of the root
\* list
PromoteChild(h, child) ==
    SetRoot(
        LinkPrevOfNext(
            SetField(
                SetNextToRoot(SetField(ReleaseJoint(h, child), child, "parent", NULL),
                              child),
                child, "prev", NULL),
            child),
        child)

\* the while (child) loop of disconnect
RECURSIVE DisconnectChildren(_, _, _)
DisconnectChildren(h, child, parent) ==
    IF child = NULL THEN h
    ELSE DisconnectChildren(
            IF parent # NULL THEN ReparentChild(h, child, parent)
            ELSE PromoteChild(h, child),
            h.b[child].next, parent)

\* the end of disconnect: the bone loses joint, parent and child and is
\* linked in front of ragdoll.root; ragdoll.root itself is left as it is
DisconnectTail(h, bone) ==
    LinkPrevOfNext(
        SetNextToRoot(
            SetField(
                SetField(
                    SetField(ReleaseJoint(h, bone), bone, "parent", NULL),
                    bone, "child", NULL),
                bone, "prev", NULL),
            bone),
        bone)

\* PhysicsSceneImpl::disconnect
disconnect(h, bone) ==
    DisconnectTail(
        DisconnectChildren(
            UnlinkFromNext(
                UnlinkFromPrev(AdvanceRoot(AdvanceParentChild(h, bone), bone), bone),
                bone),
            h.b[bone].child, h.b[bone].parent),
        bone)

\* connect up to the joint: the child is unlinked from its list and becomes
\* the first child of parent
LinkUnderParent(h, child, parent) ==
    SetField(
        SetField(
            LinkPrevOfNext(
                SetNextToFirstChild(
                    AdvanceRoot(UnlinkFromPrev(UnlinkFromNext(h, child), child), child),
                    child, parent),
                child),
            parent, "child", child),
        child, "parent", parent)

\* connect that links the bone and creates no joint
connect_NoJoint(h, child, parent) == LinkUnderParent(h, child, parent)

\* history: the call connect(child, parent) that took the heap h to the heap r
LogConnect(h, r, child, parent) ==
    [r EXCEPT !.conn = Append(@, [child |-> child, parent |-> parent,
                                  b0 |-> h.b, root0 |-> h.root,
                                  b1 |-> r.b, root1 |-> r.root])]

\* PhysicsSceneImpl::connect
connect(h, child, parent) ==
    LogConnect(h, changeRagdollBoneJoint(LinkUnderParent(h, child, parent), child, REVOLUTE),
               child, parent)

\* PhysicsSceneImpl::getBone, the recursion cut at depth fuel (a well-formed
\* tree of at most MaxAlloc bones is never cut)
RECURSIVE getBoneAt(_, _, _, _)
getBoneAt(h, bone, pose_bone_idx, fuel) ==
    IF bone = NULL \/ fuel = 0 THEN NULL
    ELSE IF h.b[bone].pose_bone_idx = pose_bone_idx THEN bone
    ELSE IF getBoneAt(h, h.b[bone].child, pose_bone_idx, fuel - 1) # NULL
         THEN getBoneAt(h, h.b[bone].child, pose_bone_idx, fuel - 1)
         ELSE getBoneAt(h, h.b[bone].next, pose_bone_idx, fuel - 1)

getBone(h, bone, pose_bone_idx) == getBoneAt(h, bone, pose_bone_idx, MaxAlloc + 1)

\* PhysicsSceneImpl::getRagdollBoneByName, the name already resolved to the
\* skeleton bone index
getRagdollBoneByName(h, pose_bone_idx) == getBone(h, h.root, pose_bone_idx)

\* a walk that looks at the direct skeleton parent only
PhyParentWalk_DirectOnly(h, sk, bone_index) ==
    getRagdollBoneByName(h, sk[bone_index])

\* the do/while of getPhyParent, entered with the skeleton bone whose parent
\* is looked at next
RECURSIVE PhyParentWalk(_, _, _)
PhyParentWalk(h, sk, bone_index) ==
    IF getRagdollBoneByName(h, sk[bone_index]) = NULL /\ sk[sk[bone_index]] >= 0
    THEN PhyParentWalk(h, sk, sk[bone_index])
    ELSE getRagdollBoneByName(h, sk[bone_index])

\* PhysicsSceneImpl::getPhyParent
getPhyParent(h, sk, bone_index) ==
    IF sk[bone_index] < 0 THEN NULL ELSE PhyParentWalk(h, sk, bone_index)

\* disconnect(ragdoll, x); connect(ragdoll, x, bone);
Reattach(h, x, bone) == connect(disconnect(h, x), x, bone)

\* first loop of findCloserChildren: the root list, left at the first match
RECURSIVE CloserRoots(_, _, _, _, _)
CloserRoots(h, sk, r, bone, fuel) ==
    IF r = NULL \/ fuel = 0 THEN h
    ELSE IF r = bone \/ getPhyParent(h, sk, h.b[r].pose_bone_idx) # bone
         THEN CloserRoots(h, sk, h.b[r].next, bone, fuel - 1)
    ELSE Reattach(h, r, bone)

RECURSIVE CloserSiblings(_, _, _, _, _)

\* child = child->next after the body of the second loop ran on h
NextSibling(h, sk, child, bone, fuel) ==
    CloserSiblings(h, sk, h.b[child].next, bone, fuel - 1)

\* second loop of findCloserChildren: the siblings of bone; the lookup is
\* made with bone's own skeleton index
CloserSiblings(h, sk, child, bone, fuel) ==
    IF child = NULL \/ fuel = 0 THEN h
    ELSE IF child = bone \/ getPhyParent(h, sk, h.b[bone].pose_bone_idx) # bone
         THEN CloserSiblings(h, sk, h.b[child].next, bone, fuel - 1)
    ELSE NextSibling(Reattach(h, child, bone), sk, child, bone, fuel)

\* findCloserChildren after its first loop
CloserSiblingsOf(h, sk, bone) ==
    IF h.b[bone].parent = NULL THEN h
    ELSE CloserSiblings(h, sk, h.b[h.b[bone].parent].child, bone, MaxAlloc + 1)

\* PhysicsSceneImpl::findCloserChildren
findCloserChildren(h, sk, bone) ==
    CloserSiblingsOf(CloserRoots(h, sk, h.root, bone, MaxAlloc + 1), sk, bone)

\* LUMIX_NEW(m_allocator, RagdollBone) and the field initialisation of
\* createRagdollBone
NewBone(h, new_bone, pose_bone_idx) ==
    [h EXCEPT !.live = @ \cup {new_bone},
              !.b[new_bone] = [BlankBone EXCEPT !.pose_bone_idx = pose_bone_idx]]

\* if (parent) connect(ragdoll, new_bone, parent);
ConnectIfParent(h, new_bone, parent) ==
    IF parent # NULL THEN connect(h, new_bone, parent) ELSE h

\* auto* parent = getPhyParent(...); if (parent) connect(...);
ConnectToPhyParent(h, sk, new_bone, pose_bone_idx) ==
    ConnectIfParent(h, new_bone, getPhyParent(h, sk, pose_bone_idx))

\* body of PhysicsSceneImpl::createRagdollBone on the heap; new_bone is the
\* cell LUMIX_NEW returned
createBoneOnHeap(h, sk, new_bone, pose_bone_idx) ==
    findCloserChildren(
        ConnectToPhyParent(
            SetRoot(
                LinkPrevOfNext(SetNextToRoot(NewBone(h, new_bone, pose_bone_idx), new_bone),
                               new_bone),
                new_bone),
            sk, new_bone, pose_bone_idx),
        sk, new_bone)

\* the ragdoll bone of the nearest skeleton ancestor of skeleton bone i that
\* has a ragdoll body among the bones in l, NULL if there is none
RECURSIVE NearestBody(_, _, _, _)
NearestBody(b, l, sk, i) ==
    IF sk[i] < 0 THEN NULL
    ELSE LET owners == {x \in l : b[x].pose_bone_idx = sk[i]}
         IN  IF owners # {} THEN CHOOSE x \in owners : TRUE
             ELSE NearestBody(b, l, sk, sk[i])

HasBody(i) == \E x \in live : bones[x].pose_bone_idx = i

\* PhysicsSceneImpl::createRagdollBone for a skeleton bone that has no
\* ragdoll body yet
createRagdollBone(i) ==
    /\ ~rfault
    /\ nalloc < MaxAlloc
    /\ ~HasBody(i)
    /\ LET new_bone == nalloc + 1
           h == createBoneOnHeap(Heap(bones, live, root, uaf, rfault), skel, new_bone, i)
       IN  /\ bones' = h.b
           /\ live' = h.live
           /\ root' = h.root
           /\ uaf' = h.uaf
           /\ rfault' = h.fault
           /\ nalloc' = new_bone
           /\ connected' = h.conn
           /\ rlast' = [op |-> "create", bone |-> new_bone,
                        expected |-> NearestBody(bones, live, skel, i),
                        was_parent |-> NULL, was_child |-> NULL]
    /\ reloaded' = NoReload
    /\ torn' = NoTeardown
    /\ disconnected' = NoDisconnect
    /\ UNCHANGED <<pvars, skel, avars>>

\* PhysicsSceneImpl::destroyRagdollBone: disconnect, release the actor,
\* delete the bone
destroyRagdollBone(bone) ==
    /\ ~rfault
    /\ bone \in live
    /\ LET h == disconnect(Heap(bones, live, root, uaf, rfault), bone)
       IN  /\ bones' = [h.b EXCEPT ![bone] = BlankBone]
           /\ live' = h.live \ {bone}
           /\ root' = h.root
           /\ uaf' = h.uaf
           /\ rfault' = h.fault
    /\ rlast' = [op |-> "destroy", bone |-> bone, expected |-> NULL,
                 was_parent |-> bones[bone].parent, was_child |-> bones[bone].child]
    /\ connected' = <<>>
    /\ torn' = NoTeardown
    /\ reloaded' = NoReload
    /\ disconnected' = [bone |-> bone, was_parent |-> bones[bone].parent,
                        children |-> ChainFrom(bones, live, bones[bone].child, MaxAlloc + 1),
                        b |-> disconnect(Heap(bones, live, root, uaf, rfault), bone).b,
                        root |-> disconnect(Heap(bones, live, root, uaf, rfault), bone).root]
    /\ UNCHANGED <<pvars, skel, nalloc, avars>>

\* the editor's joint-type change: PhysicsSceneImpl::changeRagdollBoneJoint
\* on a bone that is connected to a parent
setRagdollBoneJointType(bone, type) ==
    /\ ~rfault
    /\ bone \in live
    /\ bones[bone].parent # NULL
    /\ bones[bone].parent_joint # type
    /\ LET h == changeRagdollBoneJoint(Heap(bones, live, root, uaf, rfault), bone, type)
       IN  /\ bones' = h.b
           /\ uaf' = h.uaf
           /\ rfault' = h.fault
    /\ rlast' = [op |-> "joint", bone |-> bone, expected |-> NULL,
                 was_parent |-> NULL, was_child |-> NULL]
    /\ reloaded' = NoReload
    /\ disconnected' = NoDisconnect
    /\ connected' = <<>>
    /\ torn' = NoTeardown
    /\ UNCHANGED <<pvars, skel, live, root, nalloc, avars>>

\* the switch of serializeRagdollJoint and deserializeRagdollJoint has the
\* cases eFIXED, eDISTANCE and eREVOLUTE; default: ASSERT(false)
JointAsserts(joint) == joint \notin {NO_JOINT, FIXED, REVOLUTE}

\* serializeRagdollBone from bone on reaches an ASSERT(false)
RECURSIVE SerializeAsserts(_, _, _)
SerializeAsserts(h, bone, fuel) ==
    IF bone = NULL \/ fuel = 0 THEN FALSE
    ELSE \/ SerializeAsserts(h, h.b[bone].child, fuel - 1)
         \/ SerializeAsserts(h, h.b[bone].next, fuel - 1)
         \/ JointAsserts(h.b[bone].parent_joint)

\* PhysicsSceneImpl::serializeRagdollJoint: has_joint, then the joint type
serializeRagdollJoint(h, bone) ==
    IF h.b[bone].parent_joint = NO_JOINT THEN <<FALSE>>
    ELSE <<TRUE, h.b[bone].parent_joint>>

\* PhysicsSceneImpl::serializeRagdollBone: pose_bone_idx (-1 for nullptr),
\* the child subtree, the next siblings, the joint
RECURSIVE serializeRagdollBone(_, _, _)
serializeRagdollBone(h, bone, fuel) ==
    IF bone = NULL \/ fuel = 0 THEN <<-1>>
    ELSE <<h.b[bone].pose_bone_idx>>
            \o serializeRagdollBone(h, h.b[bone].child, fuel - 1)
            \o serializeRagdollBone(h, h.b[bone].next, fuel - 1)
            \o serializeRagdollJoint(h, bone)

\* PhysicsSceneImpl::deserializeRagdollJoint; d = [h, pos, n]: the heap, the
\* read position in the blob s and the allocation count
deserializeRagdollJoint(d, s, bone) ==
    IF ~s[d.pos] THEN [d EXCEPT !.pos = @ + 1]
    ELSE [d EXCEPT !.pos = @ + 2,
                   !.h = changeRagdollBoneJoint(d.h, bone, s[d.pos + 1])]

\* deserializeRagdollBone from LUMIX_NEW to bone->parent = parent
ReadBoneHead(d, s, parent) ==
    [d EXCEPT !.pos = @ + 1, !.n = @ + 1,
              !.h.live = @ \cup {d.n + 1},
              !.h.b[d.n + 1] = [BlankBone EXCEPT !.pose_bone_idx = s[d.pos],
                                                 !.parent = parent]]

\* bone->child = <the bone c holds>
StoreChild(c, bone) == [c.d EXCEPT !.h = SetField(@, bone, "child", c.bone)]

\* bone->next = <the bone n holds>; if (bone->next) bone->next->prev = bone;
StoreNext(n, bone) ==
    [n.d EXCEPT !.h = LinkPrevOfNext(SetField(@, bone, "next", n.bone), bone)]

\* deserializeRagdollBone after the next siblings were read
ReadBoneJoint(n, s, bone) ==
    [d |-> deserializeRagdollJoint(StoreNext(n, bone), s, bone), bone |-> bone]

RECURSIVE deserializeRagdollBone(_, _, _)

\* deserializeRagdollBone after the child subtree was read
ReadBoneNext(c, s, parent, bone) ==
    ReadBoneJoint(deserializeRagdollBone(StoreChild(c, bone), s, parent), s, bone)

\* PhysicsSceneImpl::deserializeRagdollBone; the result is [d, bone]
deserializeRagdollBone(d, s, parent) ==
    IF s[d.pos] < 0 THEN [d |-> [d EXCEPT !.pos = @ + 1], bone |-> NULL]
    ELSE ReadBoneNext(deserializeRagdollBone(ReadBoneHead(d, s, parent), s, d.n + 1),
                      s, parent, d.n + 1)

\* LUMIX_DELETE(m_allocator, bone) after its joint and actor were released
DeleteBone(h, bone) == [h EXCEPT !.live = @ \ {bone}, !.b[bone] = BlankBone]

\* bone->actor->release() ahead of bone->parent_joint->release()
ReleaseJointAndActor_ActorFirst(h, bone) ==
    [h EXCEPT !.rel = @ \o <<[what |-> "actor", bone |-> bone]>>
                        \o (IF h.b[bone].parent_joint # NO_JOINT
                            THEN <<[what |-> "joint", bone |-> bone]>> ELSE <<>>)]

\* if (bone->parent_joint) bone->parent_joint->release();
\* if (bone->actor) bone->actor->release();
\* every bone has an actor; history: the releases in their order
ReleaseJointAndActor(h, bone) ==
    [h EXCEPT !.rel = @ \o (IF h.b[bone].parent_joint # NO_JOINT
                            THEN <<[what |-> "joint", bone |-> bone]>> ELSE <<>>)
                        \o <<[what |-> "actor", bone |-> bone]>>]

\* PhysicsSceneImpl::destroySkeleton: next siblings, children, then the bone
\* (next and child are read from the bone before anything is deleted)
RECURSIVE destroySkeleton(_, _, _)
destroySkeleton(h, bone, fuel) ==
    IF bone = NULL \/ fuel = 0 THEN h
    ELSE DeleteBone(
            ReleaseJointAndActor(
                destroySkeleton(destroySkeleton(h, h.b[bone].next, fuel - 1),
                                h.b[bone].child, fuel - 1),
                bone),
            bone)

\* clearRagdolls followed by deserializeRagdollBone(nullptr, blob)
LoadRagdoll(h, s, r, n) ==
    deserializeRagdollBone(
        [h |-> destroySkeleton(h, r, MaxAlloc + 1), pos |-> 1, n |-> n], s, NULL)

\* the bones serializeRagdollBone writes from bone on
RECURSIVE TreeSize(_, _, _)
TreeSize(h, bone, fuel) ==
    IF bone = NULL \/ fuel = 0 THEN 0
    ELSE 1 + TreeSize(h, h.b[bone].child, fuel - 1) + TreeSize(h, h.b[bone].next, fuel - 1)

\* save and load at the latest version: PhysicsSceneImpl::serializeRagdolls,
\* then deserializeRagdolls (clearRagdolls, deserializeRagdollBone from the
\* blob)
reloadRagdoll ==
    /\ ~rfault
    /\ root # NULL
    /\ nalloc + TreeSize(Heap(bones, live, root, uaf, rfault), root, MaxAlloc + 1) <= MaxAlloc
    /\ LET r == LoadRagdoll(Heap(bones, live, root, uaf, rfault),
                            serializeRagdollBone(Heap(bones, live, root, uaf, rfault),
                                                 root, MaxAlloc + 1),
                            root, nalloc)
       IN  /\ bones' = r.d.h.b
           /\ live' = r.d.h.live
           /\ root' = r.bone
           /\ uaf' = r.d.h.uaf
           /\ rfault' = r.d.h.fault
           /\ nalloc' = r.d.n
    /\ rlast' = [op |-> "reload", bone |-> NULL, expected |-> NULL,
                 was_parent |-> NULL, was_child |-> NULL]
    /\ disconnected' = NoDisconnect
    /\ connected' = <<>>
    /\ torn' = NoTeardown
    /\ reloaded' = [count |-> Cardinality(live), shape |-> Shape(bones, live),
                    asserted |-> SerializeAsserts(Heap(bones, live, root, uaf, rfault),
                                                  root, MaxAlloc + 1)]
    /\ UNCHANGED <<pvars, skel, avars>>

\* PhysicsSceneImpl::destroyComponent for RAGDOLL_TYPE: destroySkeleton on the
\* root and the ragdoll erased; the entity is left without bones, as
\* createRagdoll gives it a ragdoll again
destroyRagdollComponent ==
    /\ ~rfault
    /\ LET h == destroySkeleton(Heap(bones, live, root, uaf, rfault), root, MaxAlloc + 1)
       IN  /\ bones' = h.b
           /\ live' = h.live
           /\ uaf' = h.uaf
           /\ rfault' = h.fault
           /\ torn' = [done |-> TRUE, rel |-> h.rel, b |-> bones, live |-> live,
                       root |-> root]
    /\ root' = NULL
    /\ rlast' = [op |-> "teardown", bone |-> NULL, expected |-> NULL,
                 was_parent |-> NULL, was_child |-> NULL]
    /\ reloaded' = NoReload
    /\ disconnected' = NoDisconnect
    /\ connected' = <<>>
    /\ UNCHANGED <<pvars, skel, nalloc, avars>>

\* the skeletons: bone 0 is the skeleton's root, every other bone has an
\* earlier bone as parent
Skeletons ==
    {s \in [SkelIdx -> -1 .. (NBones - 2)] :
        /\ s[0] = -1
        /\ \A i \in SkelIdx \ {0} : s[i] >= 0 /\ s[i] < i}

(***************************************************************************)
(* Physics scene: rigid actors, heightfield, controller, joint             *)
(***************************************************************************)
NPhysEntities == 2   \* entities that can carry a rigid actor
MaxSdk == 4          \* SDK objects created in a behaviour

PhysEntities == 1 .. NPhysEntities
SdkIds == 1 .. MaxSdk

\* the physics scene as one value
PhysScene ==
    [a |-> m_actors, t |-> m_terrains, c |-> m_controllers, j |-> m_joints,
     sdk |-> sdk, fault |-> pfault]

\* the physics scene after operation: its state is r
PhysCommit(r) ==
    /\ m_actors' = r.a
    /\ m_terrains' = r.t
    /\ m_controllers' = r.c
    /\ m_joints' = r.j
    /\ sdk' = r.sdk
    /\ pfault' = r.fault
    /\ UNCHANGED <<load, animator, prop, ik_solve, xvars, rvars, avars>>

\* the object the next PxCreate... call returns
NewSdk(p) == CHOOSE id \in SdkIds : p.sdk[id] = "unused" /\ \A k \in 1 .. (id - 1) : p.sdk[k] # "unused"
CanCreate(p) == \E id \in SdkIds : p.sdk[id] = "unused"

\* PxCreateStatic, PxCreateDynamic, createController, Px...JointCreate
PxCreate(p, id) == [p EXCEPT !.sdk[id] = "alive"]

\* obj->release()
PxRelease(p, obj) ==
    [p EXCEPT !.sdk[obj] = IF @ = "alive" THEN "released" ELSE "twice"]

\* a call through the SDK pointer obj in operation op
Deref(p, obj, op) == IF obj = NULL THEN [p EXCEPT !.fault = op] ELSE p

\* RigidActor::setPhysxActor
setPhysxActor(p, e, actor) ==
    [(IF p.a[e].physx_actor # NULL THEN PxRelease(p, p.a[e].physx_actor) ELSE p)
        EXCEPT !.a[e].physx_actor = actor]

NoActor == [exists |-> FALSE, mesh |-> FALSE, physx_actor |-> NULL, dynamic |-> FALSE]

\* PhysicsSceneImpl::createBoxRigidActor (createSphereRigidActor and
\* createCapsuleRigidActor are the same but for the geometry)
createBoxRigidActor(e) ==
    /\ pfault = "none"
    /\ ~m_actors[e].exists
    /\ CanCreate(PhysScene)
    /\ PhysCommit(setPhysxActor(
            PxCreate([PhysScene EXCEPT !.a[e] = [NoActor EXCEPT !.exists = TRUE]],
                     NewSdk(PhysScene)),
            e, NewSdk(PhysScene)))

\* PhysicsSceneImpl::createMeshRigidActor
createMeshRigidActor(e) ==
    /\ pfault = "none"
    /\ ~m_actors[e].exists
    /\ PhysCommit([PhysScene EXCEPT !.a[e] = [NoActor EXCEPT !.exists = TRUE, !.mesh = TRUE]])

\* RigidActor::onStateChanged with new_state READY; created: PxCreateDynamic
\* or PxCreateStatic returned an actor
onStateChanged(e, created) ==
    /\ pfault = "none"
    /\ m_actors[e].exists /\ m_actors[e].mesh
    /\ CanCreate(PhysScene)
    /\ PhysCommit(IF created
                  THEN setPhysxActor(PxCreate(setPhysxActor(PhysScene, e, NULL),
                                              NewSdk(PhysScene)),
                                     e, NewSdk(PhysScene))
                  ELSE setPhysxActor(PhysScene, e, NULL))

\* PhysicsSceneImpl::setActorLayer: updateFilterData(actor->physx_actor, layer)
\* calls actor->getShapes
setActorLayer(e) ==
    /\ pfault = "none"
    /\ m_actors[e].exists
    /\ PhysCommit(Deref(PhysScene, m_actors[e].physx_actor, "setActorLayer"))

\* setIsDynamic past the early return, with a physx_actor: a new actor of the
\* other kind replaces the old one
ReplaceActor(p, e, id) == setPhysxActor(PxCreate(p, id), e, id)

\* PhysicsSceneImpl::setIsDynamic
setIsDynamic(e, new_value) ==
    /\ pfault = "none"
    /\ m_actors[e].exists
    /\ CanCreate(PhysScene)
    /\ PhysCommit(
          IF m_actors[e].dynamic = new_value THEN PhysScene
          ELSE IF m_actors[e].physx_actor = NULL
               THEN Deref([PhysScene EXCEPT !.a[e].dynamic = new_value], NULL, "setIsDynamic")
               ELSE ReplaceActor([PhysScene EXCEPT !.a[e].dynamic = new_value], e,
                                 NewSdk(PhysScene)))

\* the actors whose physx_actor is null
NullActors(p) == {e \in PhysEntities : p.a[e].exists /\ p.a[e].physx_actor = NULL}

\* PhysicsSceneImpl::updateFilterData(): getShapes on every actor, on every
\* controller that is not free, on every terrain that has an actor
updateFilterData(p, op) ==
    IF NullActors(p) # {} THEN Deref(p, NULL, op) ELSE p

\* PhysicsSceneImpl::setLayersCanCollide
setLayersCanCollide ==
    /\ pfault = "none"
    /\ PhysCommit(updateFilterData(PhysScene, "setLayersCanCollide"))

\* PhysicsSceneImpl::removeCollisionLayer
removeCollisionLayer ==
    /\ pfault = "none"
    /\ PhysCommit(updateFilterData(PhysScene, "removeCollisionLayer"))

\* PhysicsSceneImpl::onEntityMoved: the controller slot of the entity, free or
\* not, else the actor of the entity
onEntityMoved(e) ==
    /\ pfault = "none"
    /\ PhysCommit(IF e = 1 /\ m_controllers.m_controller # NULL THEN PhysScene
                  ELSE IF m_actors[e].exists
                       THEN Deref(PhysScene, m_actors[e].physx_actor, "onEntityMoved")
                       ELSE PhysScene)

\* PhysicsSceneImpl::updateDynamicActors, the write-back of a tick
updateDynamicActors ==
    /\ pfault = "none"
    /\ PhysCommit(IF \E e \in NullActors(PhysScene) : m_actors[e].dynamic
                  THEN Deref(PhysScene, NULL, "updateDynamicActors") ELSE PhysScene)

\* PhysicsSceneImpl::destroyComponent for the actor types
destroyActor(e) ==
    /\ pfault = "none"
    /\ m_actors[e].exists
    /\ PhysCommit([setPhysxActor(PhysScene, e, NULL) EXCEPT !.a[e] = NoActor])

\* PhysicsSceneImpl::createHeightfield
createHeightfield ==
    /\ pfault = "none"
    /\ ~m_terrains.exists
    /\ PhysCommit([PhysScene EXCEPT !.t = [exists |-> TRUE, m_actor |-> NULL]])

\* the actor of the terrain is removed from the scene and released
ReleaseTerrainActor(p) ==
    IF p.t.m_actor # NULL THEN [PxRelease(p, p.t.m_actor) EXCEPT !.t.m_actor = NULL] ELSE p

\* PhysicsSceneImpl::heightmapLoaded; created: PxCreateStatic returned an actor
heightmapLoaded(created) ==
    /\ pfault = "none"
    /\ m_terrains.exists
    /\ CanCreate(PhysScene)
    /\ PhysCommit(IF created
                  THEN [PxCreate(ReleaseTerrainActor(PhysScene), NewSdk(PhysScene))
                           EXCEPT !.t.m_actor = NewSdk(PhysScene)]
                  ELSE ReleaseTerrainActor(PhysScene))

\* PhysicsSceneImpl::destroyComponent for HEIGHTFIELD_TYPE: LUMIX_DELETE runs
\* Heightfield::~Heightfield, which unloads the heightmap
destroyHeightfield ==
    /\ pfault = "none"
    /\ m_terrains.exists
    /\ PhysCommit([PhysScene EXCEPT !.t = [exists |-> FALSE, m_actor |-> NULL]])

\* PhysicsSceneImpl::createController: a new slot
createPhysicsController ==
    /\ pfault = "none"
    /\ ~m_controllers.exists
    /\ CanCreate(PhysScene)
    /\ PhysCommit([PxCreate(PhysScene, NewSdk(PhysScene))
                      EXCEPT !.c = [exists |-> TRUE, m_controller |-> NewSdk(PhysScene)]])

\* PhysicsSceneImpl::destroyComponent for CONTROLLER_TYPE: m_is_free = true
destroyPhysicsController ==
    /\ pfault = "none"
    /\ m_controllers.exists
    /\ PhysCommit([PhysScene EXCEPT !.c.exists = FALSE])

\* PhysicsSceneImpl::createHingeJoint (the other joint types differ in the
\* Px...JointCreate call)
createHingeJoint ==
    /\ pfault = "none"
    /\ ~m_joints.exists
    /\ CanCreate(PhysScene)
    /\ PhysCommit([PxCreate(PhysScene, NewSdk(PhysScene))
                      EXCEPT !.j = [exists |-> TRUE, physx |-> NewSdk(PhysScene)]])

\* PhysicsSceneImpl::destroyComponent for the joint types
destroyJoint ==
    /\ pfault = "none"
    /\ m_joints.exists
    /\ PhysCommit([(IF m_joints.physx # NULL THEN PxRelease(PhysScene, m_joints.physx)
                    ELSE PhysScene)
                      EXCEPT !.j = [exists |-> FALSE, physx |-> NULL]])

\* enum class PhysicsSceneVersion
LAYERS == 0
RAGDOLLS == 6
JOINT_REFACTOR == 8
LATEST == 9
MaxLoadActors == 2   \* rigid actors in a stream

Versions == 0 .. LATEST

\* the streams deserialize is given: the number of actors, the controller
\* slot (none, a free one, one in use), the terrain slot (none, an empty one,
\* one that exists)
StreamShapes ==
    [actors : 0 .. MaxLoadActors, controller : {"none", "free", "used"},
     terrain : {"none", "empty", "exists"}]

\* the test of a field against the version that is named after it, with >=
Newer_OrSame(version, since) == version >= since

\* version > (int)PhysicsSceneVersion::X; version <= X makes the block return
Newer(version, since) == version > since

\* the reads of a sequence of n equal entries
RECURSIVE Times(_, _)
Times(n, reads) == IF n = 0 THEN <<>> ELSE reads \o Times(n - 1, reads)

\* PhysicsSceneImpl::deserializeActor: the reads for an actor
deserializeActor(version) ==
    (IF Newer(version, LAYERS) THEN <<"actor.layer">> ELSE <<>>)
        \o <<"actor.type", "actor.geometry">>

\* PhysicsSceneImpl::deserializeActors: the reads
deserializeActors(version, n) ==
    <<"actors.count">>
        \o Times(n, <<"actor.is_dynamic", "actor.entity">> \o deserializeActor(version))

\* PhysicsSceneImpl::deserializeControllers: the reads
deserializeControllers(version, slot) ==
    IF slot = "none" THEN <<"controllers.count">>
    ELSE <<"controllers.count", "controller.entity", "controller.is_free">>
            \o (IF slot = "used" /\ Newer(version, LAYERS)
                THEN <<"controller.layer">> ELSE <<>>)

\* PhysicsSceneImpl::deserializeTerrains: the reads
deserializeTerrains(version, slot) ==
    IF slot = "none" THEN <<"terrains.count">>
    ELSE IF slot = "empty" THEN <<"terrains.count", "terrain.exists">>
    ELSE <<"terrains.count", "terrain.exists", "terrain.entity", "terrain.heightmap",
           "terrain.xz_scale", "terrain.y_scale">>
            \o (IF Newer(version, LAYERS) THEN <<"terrain.layer">> ELSE <<>>)

\* PhysicsSceneImpl::deserializeRagdolls: the reads
deserializeRagdolls(version) ==
    IF ~Newer(version, RAGDOLLS) THEN <<>> ELSE <<"ragdolls.count", "ragdolls">>

\* PhysicsSceneImpl::deserializeJoints: the reads
deserializeJoints(version) ==
    IF ~Newer(version, JOINT_REFACTOR) THEN <<>> ELSE <<"joints.count", "joints">>

\* the reads of PhysicsSceneImpl::deserialize, in their order
DeserializeReads(version, shape) ==
    (IF Newer(version, LAYERS)
     THEN <<"layers_count", "layers_names", "collision_filter">> ELSE <<>>)
        \o deserializeActors(version, shape.actors)
        \o deserializeControllers(version, shape.controller)
        \o deserializeTerrains(version, shape.terrain)
        \o deserializeRagdolls(version)
        \o deserializeJoints(version)

\* load when nothing was deserialized
NoLoad == [done |-> FALSE, version |-> 0,
           shape |-> [actors |-> 0, controller |-> "none", terrain |-> "none"],
           reads |-> <<>>]

\* PhysicsSceneImpl::deserialize as the reads it makes from the stream
deserialize(version, shape) ==
    /\ load' = [done |-> TRUE, version |-> version, shape |-> shape,
                reads |-> DeserializeReads(version, shape)]
    /\ UNCHANGED <<m_actors, m_terrains, m_controllers, m_joints, sdk, pfault, animator, prop,
                   ik_solve, xvars, rvars, avars>>

LoadNext == \E version \in Versions, shape \in StreamShapes : deserialize(version, shape)

(***************************************************************************)
(* Property animator                                                       *)
(***************************************************************************)
MaxValue == 2        \* key values are 0 .. MaxValue
MaxTime == 24        \* frames a property animator plays
MaxDelta == 3        \* frames a tick advances the time by

\* the frames a key can be at
KeyFrames == {0, 4, 10, 20}

\* the sequences of n strictly increasing key frames
IncreasingFrames(n) ==
    {f \in [1 .. n -> KeyFrames] : \A i \in 1 .. (n - 1) : f[i] < f[i + 1]}

\* PropertyAnimation::Curve: two or three keys, frames increasing
Curves ==
    UNION {[frames : IncreasingFrames(n), values : [1 .. n -> 0 .. MaxValue]] : n \in 2 .. 3}

\* animator.animation == nullptr
NoAnimation == [frames |-> <<>>, values |-> <<>>]

\* prop when no value was set
NoValue == [set |-> FALSE, frame |-> 0, num |-> 0, den |-> 1]

\* for (i = 1; i < n; ++i) if (frame <= curve.frames[i]): the index of the
\* key that ends the segment, 0 when the loop finds none (keys count from 1)
RECURSIVE FirstKey(_, _, _)
FirstKey(frames, frame, i) ==
    IF i > Len(frames) THEN 0
    ELSE IF frame <= frames[i] THEN i
    ELSE FirstKey(frames, frame, i + 1)

\* the weights of the two keys exchanged
Lerp_Swapped(v0, v1, k, d) == [num |-> v0 * k + v1 * (d - k), den |-> d]

\* t = k / float(d); v = v1 * t + v0 * (1 - t), as the fraction num / den
Lerp(v0, v1, k, d) == [num |-> v1 * k + v0 * (d - k), den |-> d]

\* the value of the curve at frame, from the segment that ends at key i
SegmentValue(curve, frame, i) ==
    Lerp(curve.values[i - 1], curve.values[i], frame - curve.frames[i - 1],
         curve.frames[i] - curve.frames[i - 1])

\* the inner loops of updatePropertyAnimators for curves[0]
CurveValue(curve, frame) ==
    IF FirstKey(curve.frames, frame, 2) = 0 THEN NoValue
    ELSE [set |-> TRUE, frame |-> frame,
          num |-> SegmentValue(curve, frame, FirstKey(curve.frames, frame, 2)).num,
          den |-> SegmentValue(curve, frame, FirstKey(curve.frames, frame, 2)).den]

\* AnimationSceneImpl::setPropertyAnimation with an animation that is ready
setPropertyAnimation(curve) ==
    /\ animator' = [animation |-> curve, time |-> 0]
    /\ prop' = NoValue
    /\ UNCHANGED <<m_actors, m_terrains, m_controllers, m_joints, sdk, pfault, load,
                   ik_solve, xvars, rvars, avars>>

\* AnimationSceneImpl::updatePropertyAnimators for one animator; the time is
\* counted in frames (time * fps), time_delta is a whole number of frames
propertyAnimatorsUpdate(time_delta) ==
    /\ animator.time + time_delta <= MaxTime
    /\ animator' = IF animator.animation = NoAnimation THEN animator
                   ELSE [animator EXCEPT !.time = @ + time_delta]
    /\ prop' = IF animator.animation = NoAnimation THEN NoValue
               ELSE CurveValue(animator.animation,
                               (animator.time + time_delta)
                                   % animator.animation.frames[Len(animator.animation.frames)])
    /\ UNCHANGED <<m_actors, m_terrains, m_controllers, m_joints, sdk, pfault, load,
                   ik_solve, xvars, rvars, avars>>

PropNext ==
    \/ \E curve \in Curves : setPropertyAnimation(curve)
    \/ \E time_delta \in 1 .. MaxDelta : propertyAnimatorsUpdate(time_delta)

(***************************************************************************)
(* Inverse kinematics on a line                                            *)
(***************************************************************************)
MaxChain == 3        \* bones of an IK chain (two at least)
MaxPos == 3          \* the bones are at 0 .. MaxPos on the line
MaxTarget == 7       \* the target is at -MaxTarget + MaxPos .. MaxTarget

\* Controller::IK::max_iterations: 5 in every controller; 1 as the least count
IterationCounts == {1, 5}

\* what Vec3::normalized gives for the zero vector: the zero vector, or NaN
\* in every component from the division by the length 0
ZeroNorms == {"zero", "nan"}

Abs(x) == IF x < 0 THEN -x ELSE x
Sgn(x) == IF x < 0 THEN -1 ELSE IF x > 0 THEN 1 ELSE 0

\* len[i - 1] = (pos[i] - pos[i - 1]).length(), keyed by the first bone
SegmentLengths(pos) == [i \in 1 .. (Len(pos) - 1) |-> Abs(pos[i + 1] - pos[i])]

RECURSIVE SumTo(_, _)
SumTo(len, i) == IF i = 0 THEN 0 ELSE len[i] + SumTo(len, i - 1)

\* len_sum
LenSum(pos) == SumTo(SegmentLengths(pos), Len(pos) - 1)

\* the target is kept where it is
ClampTarget_Keep(pos, target) == target

\* if (len_sum * len_sum < to_target.squaredLength()) target = pos[0] +
\* to_target.normalized() * len_sum
ClampTarget(pos, target) ==
    IF LenSum(pos) * LenSum(pos) < (target - pos[1]) * (target - pos[1])
    THEN pos[1] + Sgn(target - pos[1]) * LenSum(pos)
    ELSE target

\* pos[i] = pos[j] + (pos[i] - pos[j]).normalized() * len; s.nan are the
\* bones whose position is NaN
MoveTo(s, i, j, len, zn) ==
    IF i \in s.nan \/ j \in s.nan \/ (s.pos[i] = s.pos[j] /\ zn = "nan")
    THEN [s EXCEPT !.nan = @ \cup {i}]
    ELSE [s EXCEPT !.pos[i] = s.pos[j] + Sgn(s.pos[i] - s.pos[j]) * len]

\* the first inner loop: for (i = bones_count - 1; i > 0; --i)
RECURSIVE BackwardPass(_, _, _, _)
BackwardPass(s, i, len, zn) ==
    IF i < 2 THEN s
    ELSE BackwardPass(MoveTo(s, i - 1, i, len[i - 1], zn), i - 1, len, zn)

\* the second inner loop: for (i = 1; i < bones_count; ++i)
RECURSIVE ForwardPass(_, _, _, _)
ForwardPass(s, i, len, zn) ==
    IF i > Len(s.pos) THEN s
    ELSE ForwardPass(MoveTo(s, i, i - 1, len[i - 1], zn), i + 1, len, zn)

\* pos[ik.bones_count - 1] = target;
SetEffector(s, target) ==
    [s EXCEPT !.pos[Len(s.pos)] = target, !.nan = @ \ {Len(s.pos)}]

\* for (iteration = 0; iteration < ik.max_iterations; ++iteration)
RECURSIVE Iterate(_, _, _, _, _)
Iterate(s, target, len, zn, n) ==
    IF n = 0 THEN s
    ELSE Iterate(ForwardPass(BackwardPass(SetEffector(s, target), Len(s.pos), len, zn),
                             2, len, zn),
                 target, len, zn, n - 1)

\* the positions updateIK writes to the pose for the bones of the chain
SolveIK(pos, target, max_iterations, zn) ==
    Iterate([pos |-> pos, nan |-> {}], ClampTarget(pos, target), SegmentLengths(pos), zn,
            max_iterations)

\* the chains: two to MaxChain bones on the line, a bone not at the place of
\* the bone before it
Chains ==
    UNION {{c \in [1 .. n -> 0 .. MaxPos] : \A i \in 1 .. (n - 1) : c[i] # c[i + 1]} :
              n \in 2 .. MaxChain}

NoIk == [done |-> FALSE, pos |-> <<0, 0>>, nan |-> {}, target |-> 0, max_iterations |-> 1,
         zero_norm |-> "zero", before |-> <<0, 0>>, clamped |-> 0]

\* no chain is solved
IkIdle == ik_solve = NoIk

\* a pose and a chain with its target, as fillPose and setIK leave them
IkInputs ==
    [done : {FALSE}, pos : Chains, nan : {{}}, target : (MaxPos - MaxTarget) .. MaxTarget,
     max_iterations : IterationCounts, zero_norm : ZeroNorms, before : {<<0, 0>>},
     clamped : {0}]

\* AnimationSceneImpl::updateIK for a chain whose bones are in the model
updateIK ==
    /\ ~ik_solve.done
    /\ ik_solve' = [ik_solve EXCEPT
          !.done = TRUE,
          !.before = ik_solve.pos,
          !.clamped = ClampTarget(ik_solve.pos, ik_solve.target),
          !.pos = SolveIK(ik_solve.pos, ik_solve.target, ik_solve.max_iterations,
                          ik_solve.zero_norm).pos,
          !.nan = SolveIK(ik_solve.pos, ik_solve.target, ik_solve.max_iterations,
                          ik_solve.zero_norm).nan]
    /\ UNCHANGED <<m_actors, m_terrains, m_controllers, m_joints, sdk, pfault, load,
                   animator, prop, xvars, rvars, avars>>

IkNext == updateIK

(***************************************************************************)
(* updateAnimables: the sampling jobs                                      *)
(***************************************************************************)
MaxAnimables == 18   \* animable components of the scene
JobSlots == 16       \* lengthOf(jobs)

Min(a, b) == IF a < b THEN a ELSE b

\* the indices a job can pass to m_animables.at
AtIndices == 0 .. (2 * MaxAnimables)

\* job_count of updateAnimables for all_count animables
JobCount(all_count) == Min(JobSlots, all_count)

\* batch_count of job i
BatchCount(i, all_count) ==
    IF i = JobCount(all_count) - 1
    THEN all_count - (JobCount(all_count) - 1) * (all_count \div JobCount(all_count))
    ELSE all_count \div JobCount(all_count)

\* the indices job i gives to m_animables.at: j + i * all_count / job_count
BatchIndices(i, all_count) ==
    {j + ((i * all_count) \div JobCount(all_count)) : j \in 0 .. (BatchCount(i, all_count) - 1)}

NoJobs == [n |-> 0, phase |-> "idle", done |-> {}, sampled |-> [x \in AtIndices |-> 0],
           beyond |-> {}]

\* AnimationSceneImpl::createComponent for ANIMABLE_TYPE: one more animable
createAnimable ==
    /\ anim_jobs.phase # "running"
    /\ anim_jobs.n < MaxAnimables
    /\ anim_jobs' = [NoJobs EXCEPT !.n = anim_jobs.n + 1]
    /\ UNCHANGED <<m_actors, m_terrains, m_controllers, m_joints, sdk, pfault, load,
                   animator, prop, ik_solve, wrap, ik_tick, forces, layers,
                   m_collision_filter, actor_keys, rvars, avars>>

\* updateAnimables up to JobSystem::runJobs: the jobs are handed to the workers
runJobs ==
    /\ anim_jobs.phase # "running"
    /\ anim_jobs.n # 0
    /\ anim_jobs' = [NoJobs EXCEPT !.n = anim_jobs.n, !.phase = "running"]
    /\ UNCHANGED <<m_actors, m_terrains, m_controllers, m_joints, sdk, pfault, load,
                   animator, prop, ik_solve, wrap, ik_tick, forces, layers,
                   m_collision_filter, actor_keys, rvars, avars>>

\* the lambda of job i, run by some worker
AnimateJob(i) ==
    /\ anim_jobs.phase = "running"
    /\ i < JobCount(anim_jobs.n)
    /\ i \notin anim_jobs.done
    /\ anim_jobs' = [anim_jobs EXCEPT
          !.done = @ \cup {i},
          !.sampled = [x \in AtIndices |->
                          IF x \in BatchIndices(i, anim_jobs.n) THEN @[x] + 1 ELSE @[x]],
          !.beyond = @ \cup {x \in BatchIndices(i, anim_jobs.n) : x >= anim_jobs.n}]
    /\ UNCHANGED <<m_actors, m_terrains, m_controllers, m_joints, sdk, pfault, load,
                   animator, prop, ik_solve, wrap, ik_tick, forces, layers,
                   m_collision_filter, actor_keys, rvars, avars>>

\* JobSystem::wait(&counter) returns: every job has run
waitJobs ==
    /\ anim_jobs.phase = "running"
    /\ anim_jobs.done = 0 .. (JobCount(anim_jobs.n) - 1)
    /\ anim_jobs' = [anim_jobs EXCEPT !.phase = "waited"]
    /\ UNCHANGED <<m_actors, m_terrains, m_controllers, m_joints, sdk, pfault, load,
                   animator, prop, ik_solve, wrap, ik_tick, forces, layers,
                   m_collision_filter, actor_keys, rvars, avars>>

JobsNext ==
    \/ createAnimable
    \/ runJobs
    \/ \E i \in 0 .. (JobSlots - 1) : AnimateJob(i)
    \/ waitJobs

(***************************************************************************)
(* updateAnimable: the time-wrapping loop                                  *)
(***************************************************************************)
MaxLength == 3      \* Animation::getLength
MaxStep == 4        \* time_delta * time_scale, either sign

NoWrap == [pc |-> "idle", t |-> 0, l |-> 0, time |-> 0, turn |-> 0]

\* updateAnimable up to line 726 for a ready animation of length l, on a ready
\* model with a pose: t = animable.time + time_delta * time_scale
updateAnimable(l, step) ==
    /\ wrap.pc \in {"idle", "done"}
    /\ wrap.time + step >= 0 - MaxStep
    /\ wrap' = [pc |-> "loop", t |-> wrap.time + step, l |-> l, time |-> wrap.time, turn |-> 0]
    /\ UNCHANGED <<m_actors, m_terrains, m_controllers, m_joints, sdk, pfault, load,
                   animator, prop, ik_solve, anim_jobs, ik_tick, forces, layers,
                   m_collision_filter, actor_keys, rvars, avars>>

\* one turn of while (t > l) t -= l
WrapTurn ==
    /\ wrap.pc = "loop"
    /\ wrap.t > wrap.l
    /\ wrap' = [wrap EXCEPT !.t = wrap.t - wrap.l, !.turn = 1 - wrap.turn]
    /\ UNCHANGED <<m_actors, m_terrains, m_controllers, m_joints, sdk, pfault, load,
                   animator, prop, ik_solve, anim_jobs, ik_tick, forces, layers,
                   m_collision_filter, actor_keys, rvars, avars>>

\* the loop exits: animable.time = t, the pose is unlocked
WrapExit ==
    /\ wrap.pc = "loop"
    /\ ~(wrap.t > wrap.l)
    /\ wrap' = [wrap EXCEPT !.pc = "done", !.time = wrap.t, !.turn = 0]
    /\ UNCHANGED <<m_actors, m_terrains, m_controllers, m_joints, sdk, pfault, load,
                   animator, prop, ik_solve, anim_jobs, ik_tick, forces, layers,
                   m_collision_filter, actor_keys, rvars, avars>>

\* setAnimation: animable.time = 0
setAnimation ==
    /\ wrap.pc = "done"
    /\ wrap' = NoWrap
    /\ UNCHANGED <<m_actors, m_terrains, m_controllers, m_joints, sdk, pfault, load,
                   animator, prop, ik_solve, anim_jobs, ik_tick, forces, layers,
                   m_collision_filter, actor_keys, rvars, avars>>

WrapNext ==
    \/ \E l \in 0 .. MaxLength, step \in (0 - MaxStep) .. MaxStep : updateAnimable(l, step)
    \/ WrapTurn
    \/ WrapExit
    \/ setAnimation

(***************************************************************************)
(* updateController: the four IK chains on the pose                        *)
(***************************************************************************)
IK_COUNT == 4              \* lengthOf(controller.inverse_kinematics)

\* the pose fillPose and computeAbsolute leave: bones 1..3 on the line, no
\* position NaN; rot counts the writes to pose.rotations
FilledPose == [pos |-> <<0, 1, 3>>, nan |-> {}, rot |-> <<0, 0, 0>>]

\* the bone lists setIK is given: crc32 of names of the model, and a list
\* with a name (0) that is no bone of the model
BoneLists == {<<1, 2>>, <<1, 2, 3>>, <<1, 0>>}
ChainTargets == {0 - 5}

\* Controller::IK as constructed, its bones not initialized
NoChain == [weight |-> 0, bones |-> <<>>, target |-> 0]

NoIkTick == [ik |-> [k \in 1 .. IK_COUNT |-> NoChain], pose |-> FilledPose, runs |-> <<>>]

\* model.getBoneIndex(id): the iterator; the value of an invalid iterator is
\* no bone of the pose
getBoneIndex(pose, id) ==
    [valid |-> id \in DOMAIN pose.pos, value |-> IF id \in DOMAIN pose.pos THEN id ELSE 1]

\* only the first bone is looked up
Resolves_FirstOnly(pose, ids) == getBoneIndex(pose, ids[1]).valid

\* the first loop of updateIK: every bones_iters[i] is valid
Resolves(pose, ids) == \A i \in DOMAIN ids : getBoneIndex(pose, ids[i]).valid

\* pos[i] = pose.positions[indices[i]]
ChainPositions(pose, ids) ==
    [i \in DOMAIN ids |-> pose.pos[getBoneIndex(pose, ids[i]).value]]

\* the chain position of bone b of the pose
ChainIndex(ids, b) == CHOOSE i \in DOMAIN ids : ids[i] = b

\* the last loop of updateIK: the rotation of every bone of the chain but
\* the last, and the position of every bone of the chain, are written
WritePose(pose, ids, solved) ==
    [pos |-> [b \in DOMAIN pose.pos |->
                 IF \E i \in DOMAIN ids : ids[i] = b
                 THEN solved.pos[ChainIndex(ids, b)] ELSE pose.pos[b]],
     nan |-> (pose.nan \ {ids[i] : i \in DOMAIN ids})
                \cup {ids[i] : i \in solved.nan},
     rot |-> [b \in DOMAIN pose.rot |->
                 IF \E i \in 1 .. (Len(ids) - 1) : ids[i] = b
                 THEN pose.rot[b] + 1 ELSE pose.rot[b]]]

\* the chain reads a position that is NaN: every length is NaN and so is
\* every position it writes
WriteNaN(pose, ids) ==
    [pose EXCEPT !.nan = @ \cup {ids[i] : i \in DOMAIN ids},
                 !.rot = [b \in DOMAIN pose.rot |->
                             IF \E i \in 1 .. (Len(ids) - 1) : ids[i] = b
                             THEN pose.rot[b] + 1 ELSE pose.rot[b]]]

\* AnimationSceneImpl::updateIK(ik, pose, model)
updateIKOn(ik, pose, zn) ==
    IF ~Resolves(pose, ik.bones) THEN pose
    ELSE IF \E i \in DOMAIN ik.bones : ik.bones[i] \in pose.nan
         THEN WriteNaN(pose, ik.bones)
         ELSE WritePose(pose, ik.bones,
                        SolveIK(ChainPositions(pose, ik.bones), ik.target, 5, zn))

\* no chain ends the loop
StopsAt_Never(ik) == FALSE

\* if (ik.weight == 0) break;
StopsAt(ik) == ik.weight = 0

\* one call of updateIK from the loop of updateController, noted in runs
RunChain(s, k, zn) ==
    [s EXCEPT !.pose = updateIKOn(s.ik[k], s.pose, zn),
              !.runs = Append(@, [chain |-> k - 1,
                                  bones |-> s.ik[k].bones,
                                  before |-> s.pose,
                                  after |-> updateIKOn(s.ik[k], s.pose, zn)])]

\* for (Controller::IK& ik : controller.inverse_kinematics)
RECURSIVE SolveChains(_, _, _)
SolveChains(s, k, zn) ==
    IF k > IK_COUNT THEN s
    ELSE IF StopsAt(s.ik[k]) THEN s
    ELSE SolveChains(RunChain(s, k, zn), k + 1, zn)

\* setIK(index, weight, target, bones...) with index below 4 and at most 8 bones
setChain(index, weight, target, ids) ==
    /\ ik_tick' = [ik_tick EXCEPT
          !.ik[index + 1] = [weight |-> weight, bones |-> ids, target |-> target],
          !.runs = <<>>]
    /\ UNCHANGED <<m_actors, m_terrains, m_controllers, m_joints, sdk, pfault, load,
                   animator, prop, ik_solve, anim_jobs, wrap, forces, layers,
                   m_collision_filter, actor_keys, rvars, avars>>

\* updateController from the locked pose on, for a ready controller with a
\* model instance: the pose is filled, the chains are solved
updateControllerPose(zn) ==
    /\ ik_tick' = SolveChains([ik_tick EXCEPT !.pose = FilledPose, !.runs = <<>>], 1, zn)
    /\ UNCHANGED <<m_actors, m_terrains, m_controllers, m_joints, sdk, pfault, load,
                   animator, prop, ik_solve, anim_jobs, wrap, forces, layers,
                   m_collision_filter, actor_keys, rvars, avars>>

ChainNext ==
    \/ \E index \in 0 .. (IK_COUNT - 1), weight \in {0, 1}, target \in ChainTargets,
          ids \in BoneLists : setChain(index, weight, target, ids)
    \/ \E zn \in ZeroNorms : updateControllerPose(zn)

(***************************************************************************)
(* The queued forces                                                       *)
(***************************************************************************)
MaxForces == 3       \* calls of applyForceToActor
MaxApplied == 2      \* addForce calls counted per queued force

ForceIds == 1 .. MaxForces

NoForces == [running |-> FALSE, queue |-> <<>>, applied |-> [id \in ForceIds |-> 0],
             nid |-> 0, ran |-> FALSE, due |-> {}, found |-> {}]

\* the rest of the physics scene is left alone
ForceFrame ==
    UNCHANGED <<m_actors, m_terrains, m_controllers, m_joints, sdk, pfault, load,
                animator, prop, ik_solve, anim_jobs, wrap, ik_tick, layers,
                m_collision_filter, actor_keys, rvars, avars>>

\* PhysicsSceneImpl::startGame
physStartGame ==
    /\ pfault = "none"
    /\ ~forces.running
    /\ forces' = [forces EXCEPT !.running = TRUE, !.ran = FALSE]
    /\ ForceFrame

\* PhysicsSceneImpl::stopGame
physStopGame ==
    /\ pfault = "none"
    /\ forces.running
    /\ forces' = [forces EXCEPT !.running = FALSE, !.ran = FALSE]
    /\ ForceFrame

\* PhysicsSceneImpl::applyForceToActor on the actor of entity e
applyForceToActor(e) ==
    /\ pfault = "none"
    /\ m_actors[e].exists
    /\ forces.nid < MaxForces
    /\ forces' = [forces EXCEPT !.queue = Append(@, [id |-> forces.nid + 1, cmp |-> e]),
                                !.nid = @ + 1, !.ran = FALSE]
    /\ ForceFrame

\* the loop of applyQueuedForces stops at queue entry i: the actor is static
\* or has no physx_actor
ReturnsAt(q, i) == ~m_actors[q[i].cmp].dynamic \/ m_actors[q[i].cmp].physx_actor = NULL

\* the entries the loop of applyQueuedForces reaches addForce for
Forced(q) == {i \in DOMAIN q : \A j \in 1 .. i : ~ReturnsAt(q, j)}

\* m_queued_forces.clear() is reached if the loop returned at no entry
QueueAfter(q) == IF \E i \in DOMAIN q : ReturnsAt(q, i) THEN q ELSE <<>>

\* PhysicsSceneImpl::applyQueuedForces
applyQueuedForces(f) ==
    [f EXCEPT !.applied = [id \in ForceIds |->
                              IF \E i \in Forced(f.queue) : f.queue[i].id = id
                              THEN @[id] + 1 ELSE @[id]],
              !.queue = QueueAfter(f.queue)]

\* PhysicsSceneImpl::update: applyQueuedForces, the simulation step, then
\* updateDynamicActors reads the pose of every dynamic actor
physUpdate(paused) ==
    /\ pfault = "none"
    /\ \A id \in ForceIds : forces.applied[id] < MaxApplied
    /\ IF ~forces.running \/ paused
       THEN /\ forces' = [forces EXCEPT !.ran = FALSE]
            /\ pfault' = pfault
       ELSE /\ forces' = [applyQueuedForces(forces) EXCEPT
                   !.ran = TRUE,
                   !.found = {forces.queue[i].id : i \in DOMAIN forces.queue},
                   !.due = {forces.queue[i].id : i \in
                              {j \in DOMAIN forces.queue :
                                  /\ m_actors[forces.queue[j].cmp].dynamic
                                  /\ m_actors[forces.queue[j].cmp].physx_actor # NULL}}]
            /\ pfault' = IF \E e \in NullActors(PhysScene) : m_actors[e].dynamic
                         THEN "updateDynamicActors" ELSE pfault
    /\ UNCHANGED <<m_actors, m_terrains, m_controllers, m_joints, sdk, load,
                   animator, prop, ik_solve, anim_jobs, wrap, ik_tick, layers,
                   m_collision_filter, actor_keys, rvars, avars>>

ForceNext ==
    \/ \E e \in PhysEntities : createBoxRigidActor(e)
    \/ \E e \in PhysEntities : createMeshRigidActor(e)
    \/ \E e \in PhysEntities, new_value \in BOOLEAN : setIsDynamic(e, new_value)
    \/ physStartGame
    \/ physStopGame
    \/ \E e \in PhysEntities : applyForceToActor(e)
    \/ \E paused \in BOOLEAN : physUpdate(paused)

(***************************************************************************)
(* The collision layers                                                    *)
(***************************************************************************)
LAYER_SLOTS == 32    \* lengthOf(m_layers_names), lengthOf(m_collision_filter)

Max(a, b) == IF a > b THEN a ELSE b

\* the layers the editor and scripts give to set...Layer
LayerArgs == {0, LAYER_SLOTS - 1}

NoComponent == [exists |-> FALSE, body |-> FALSE, layer |-> 0]

\* PhysicsSceneImpl::PhysicsSceneImpl: m_layers_count(2), no component
NoLayers == [count |-> 2, actor |-> NoComponent, controller |-> NoComponent,
             terrain |-> NoComponent, shift |-> FALSE]

LayerFrame ==
    UNCHANGED <<m_actors, m_terrains, m_controllers, m_joints, sdk, pfault, load,
                animator, prop, ik_solve, anim_jobs, wrap, ik_tick, forces,
                m_collision_filter, actor_keys, rvars, avars>>

\* data.word0 = 1 << layer; data.word1 = m_collision_filter[layer] for a
\* component with shapes
ShiftsBad(c) == c.exists /\ c.body /\ c.layer < 0

\* PhysicsSceneImpl::updateFilterData(): every actor, every controller that
\* is not free, every terrain with an m_actor
FilterAll(l) ==
    [l EXCEPT !.shift = @ \/ ShiftsBad(l.actor) \/ ShiftsBad(l.controller)
                          \/ ShiftsBad(l.terrain)]

\* createBoxRigidActor, createPhysicsController: layer 0, with shapes
\* createHeightfield: layer 0, m_actor null until the heightmap is loaded
createOnLayer(kind) ==
    /\ ~layers.shift
    /\ ~layers[kind].exists
    /\ layers' = [layers EXCEPT ![kind] = [exists |-> TRUE, body |-> kind # "terrain",
                                           layer |-> 0]]
    /\ LayerFrame

\* Heightfield::heightmapLoaded: m_actor is created with the filter data of
\* m_layer
terrainLoaded ==
    /\ ~layers.shift
    /\ layers.terrain.exists /\ ~layers.terrain.body
    /\ layers' = [layers EXCEPT !.terrain.body = TRUE,
                                !.shift = layers.terrain.layer < 0]
    /\ LayerFrame

\* PhysicsSceneImpl::addCollisionLayer
addCollisionLayer ==
    /\ ~layers.shift
    /\ layers' = [layers EXCEPT !.count = Min(LAYER_SLOTS, layers.count + 1)]
    /\ LayerFrame

\* actor->layer = Math::minimum(m_layers_count - 1, actor->layer)
ClampLayer(count, layer) == Min(count - 1, layer)

\* PhysicsSceneImpl::removeCollisionLayer
removeLayer ==
    /\ ~layers.shift
    /\ layers' = FilterAll(
          [layers EXCEPT
              !.count = Max(0, layers.count - 1),
              !.actor.layer = IF layers.actor.exists
                              THEN ClampLayer(Max(0, layers.count - 1), @) ELSE @,
              !.controller.layer = IF layers.controller.exists
                                   THEN ClampLayer(Max(0, layers.count - 1), @) ELSE @,
              !.terrain.layer = IF layers.terrain.exists /\ layers.terrain.body
                                THEN ClampLayer(Max(0, layers.count - 1), @) ELSE @])
    /\ LayerFrame

\* setActorLayer, setControllerLayer, setHeightfieldLayer with a layer
\* below lengthOf(m_layers_names)
setLayer(kind, layer) ==
    /\ ~layers.shift
    /\ layers[kind].exists
    /\ layers' = [layers EXCEPT ![kind].layer = layer]
    /\ LayerFrame

LayerNext ==
    \/ \E kind \in {"actor", "controller", "terrain"} : createOnLayer(kind)
    \/ terrainLoaded
    \/ addCollisionLayer
    \/ removeLayer
    \/ \E kind \in {"actor", "controller", "terrain"}, layer \in LayerArgs :
          setLayer(kind, layer)

(***************************************************************************)
(* The collision filter                                                    *)
(***************************************************************************)
Layers == 0 .. (LAYER_SLOTS - 1)

\* the layers setLayersCanCollide is called with
FilterArgs == {0, 1, LAYER_SLOTS - 1}

\* m_collision_filter[i] = 0xffffFFFF
NoFilter == [bits |-> [i \in Layers |-> Layers],
             last |-> [layer1 |-> 0, layer2 |-> 0, can_collide |-> TRUE, called |-> FALSE]]

\* PhysicsSceneImpl::canLayersCollide
canLayersCollide(layer1, layer2) == layer2 \in m_collision_filter.bits[layer1]

\* only m_collision_filter[layer1] is changed
SetBits_OneWay(bits, layer1, layer2, can_collide) ==
    IF can_collide
    THEN [bits EXCEPT ![layer1] = @ \cup {layer2}]
    ELSE [bits EXCEPT ![layer1] = @ \ {layer2}]

\* m_collision_filter[layer1] |= 1 << layer2 and the same for layer2, or
\* &= ~(1 << layer2) and the same for layer2
SetBits(bits, layer1, layer2, can_collide) ==
    IF can_collide
    THEN [[bits EXCEPT ![layer1] = @ \cup {layer2}] EXCEPT ![layer2] = @ \cup {layer1}]
    ELSE [[bits EXCEPT ![layer1] = @ \ {layer2}] EXCEPT ![layer2] = @ \ {layer1}]

\* PhysicsSceneImpl::setLayersCanCollide; updateFilterData() finds no
\* component
setLayersCanCollideTo(layer1, layer2, can_collide) ==
    /\ m_collision_filter' =
          [bits |-> SetBits(m_collision_filter.bits, layer1, layer2, can_collide),
           last |-> [layer1 |-> layer1, layer2 |-> layer2, can_collide |-> can_collide,
                     called |-> TRUE]]
    /\ UNCHANGED <<m_actors, m_terrains, m_controllers, m_joints, sdk, pfault, load,
                   animator, prop, ik_solve, anim_jobs, wrap, ik_tick, forces, layers,
                   actor_keys, rvars, avars>>

FilterNext ==
    \E layer1 \in FilterArgs, layer2 \in FilterArgs, can_collide \in BOOLEAN :
        setLayersCanCollideTo(layer1, layer2, can_collide)

(***************************************************************************)
(* The component handles of the rigid actors                               *)
(***************************************************************************)
MaxEntity == 3       \* the entities have the indices 0 .. MaxEntity

EntityIndices == 0 .. MaxEntity
ActorTypes == {"box", "sphere", "capsule", "mesh"}

NoKeys == [keys |-> {}, last |-> [called |-> FALSE, type |-> "box", entity |-> 0,
                                  cmp |-> 0]]

\* PhysicsSceneImpl::getComponent for the four actor types: {entity.index}
\* if m_actors has the entity, INVALID_COMPONENT (-1) if not
getComponent(keys, entity) == IF entity \in keys THEN entity ELSE -1

\* m_actors[{cmp.index}] of setActorLayer, getActorLayer and the other
\* accessors: the entity whose actor is found, -1 if the key is not there
ActorOf(keys, cmp) == IF cmp \in keys THEN cmp ELSE -1

\* ComponentHandle cmp = {m_actors.size() - 1} after the insert
NewHandle(keys, entity) == Cardinality(keys \cup {entity}) - 1

\* createComponent for BOX_ACTOR_TYPE, SPHERE_ACTOR_TYPE, CAPSULE_ACTOR_TYPE
\* and MESH_ACTOR_TYPE: create...RigidActor(entity)
createActorComponent(type, entity) ==
    /\ entity \notin actor_keys.keys
    /\ actor_keys' = [keys |-> actor_keys.keys \cup {entity},
                      last |-> [called |-> TRUE, type |-> type, entity |-> entity,
                                cmp |-> NewHandle(actor_keys.keys, entity)]]
    /\ UNCHANGED <<m_actors, m_terrains, m_controllers, m_joints, sdk, pfault, load,
                   animator, prop, ik_solve, anim_jobs, wrap, ik_tick, forces, layers,
                   m_collision_filter, rvars, avars>>

\* destroyComponent for the actor types: m_actors.erase(entity)
destroyActorComponent(entity) ==
    /\ entity \in actor_keys.keys
    /\ actor_keys' = [keys |-> actor_keys.keys \ {entity},
                      last |-> NoKeys.last]
    /\ UNCHANGED <<m_actors, m_terrains, m_controllers, m_joints, sdk, pfault, load,
                   animator, prop, ik_solve, anim_jobs, wrap, ik_tick, forces, layers,
                   m_collision_filter, rvars, avars>>

HandleNext ==
    \/ \E type \in ActorTypes, entity \in EntityIndices : createActorComponent(type, entity)
    \/ \E entity \in EntityIndices : destroyActorComponent(entity)

XIdle ==
    /\ actor_keys = NoKeys
    /\ anim_jobs = NoJobs
    /\ wrap = NoWrap
    /\ ik_tick = NoIkTick
    /\ forces = NoForces
    /\ layers = NoLayers
    /\ m_collision_filter = NoFilter

\* PhysicsScene::create: no components, no SDK object
PhysInit ==
    /\ m_actors = [e \in PhysEntities |-> NoActor]
    /\ m_terrains = [exists |-> FALSE, m_actor |-> NULL]
    /\ m_controllers = [exists |-> FALSE, m_controller |-> NULL]
    /\ m_joints = [exists |-> FALSE, physx |-> NULL]
    /\ sdk = [id \in SdkIds |-> "unused"]
    /\ pfault = "none"
    /\ load = NoLoad
    /\ animator = [animation |-> NoAnimation, time |-> 0]
    /\ prop = NoValue
    /\ XIdle

PhysNext ==
    \/ \E e \in PhysEntities : createBoxRigidActor(e)
    \/ \E e \in PhysEntities : createMeshRigidActor(e)
    \/ \E e \in PhysEntities, created \in BOOLEAN : onStateChanged(e, created)
    \/ \E e \in PhysEntities : setActorLayer(e)
    \/ \E e \in PhysEntities, new_value \in BOOLEAN : setIsDynamic(e, new_value)
    \/ setLayersCanCollide
    \/ removeCollisionLayer
    \/ \E e \in PhysEntities : onEntityMoved(e)
    \/ updateDynamicActors
    \/ \E e \in PhysEntities : destroyActor(e)
    \/ createHeightfield
    \/ \E created \in BOOLEAN : heightmapLoaded(created)
    \/ destroyHeightfield
    \/ createPhysicsController
    \/ destroyPhysicsController
    \/ createHingeJoint
    \/ destroyJoint

\* PhysicsSceneImpl::createRagdoll: an empty ragdoll
RagdollInit ==
    /\ skel \in Skeletons
    /\ bones = [x \in BoneIds |-> BlankBone]
    /\ live = {}
    /\ root = NULL
    /\ nalloc = 0
    /\ uaf = FALSE
    /\ rfault = FALSE
    /\ reloaded = NoReload
    /\ disconnected = NoDisconnect
    /\ connected = <<>>
    /\ torn = NoTeardown
    /\ PhysInit
    /\ rlast = [op |-> "none", bone |-> NULL, expected |-> NULL,
                was_parent |-> NULL, was_child |-> NULL]

RagdollNext ==
    \/ \E i \in SkelIdx : createRagdollBone(i)
    \/ \E x \in BoneIds : destroyRagdollBone(x)
    \/ \E x \in BoneIds, t \in JointTypes : setRagdollBoneJointType(x, t)
    \/ reloadRagdoll
    \/ destroyRagdollComponent

(***************************************************************************)
(* Animation scene: controllers, resources, event stream                   *)
(***************************************************************************)
NEntities == 2     \* entities that can carry an anim_controller component
NActors == 1       \* entities the life cycle and the calls give a controller to
MaxNodes == 2      \* Anim::ComponentInstance objects alive at a time
MaxEvents == 2     \* records in the event stream at a time

Entities == 1 .. NEntities
Actors == 1 .. NActors
Followers == {NEntities + 1} \* the entities that can carry a shared controller
INVALID_ENTITY == 0
NO_COMPONENT == -1         \* the entity has no component of the type
Resources == {1, 2}          \* the controller resources a path can load
NodeIds == 1 .. MaxNodes
EMPTY == "EMPTY"             \* Resource::State and InputDecl::EMPTY
READY == "READY"
FAILURE == "FAILURE"
ResStates == {EMPTY, READY, FAILURE}
FLOAT == "FLOAT"             \* Anim::InputDecl::Type
INT == "INT"
BOOL == "BOOL"

\* Anim::InputDecl of each resource: decl.inputs, slot i at index i - 1.
\* Resource 1 declares a float, an int and a bool; resource 2 declares nothing.
InputDecl(r) ==
    IF r = 1
    THEN <<[type |-> FLOAT, offset |-> 0], [type |-> INT, offset |-> 4],
           [type |-> BOOL, offset |-> 8], [type |-> EMPTY, offset |-> 0]>>
    ELSE <<[type |-> EMPTY, offset |-> 0], [type |-> EMPTY, offset |-> 0],
           [type |-> EMPTY, offset |-> 0], [type |-> EMPTY, offset |-> 0]>>

\* sizeof of the value of an input slot
TypeSize(t) == IF t = BOOL THEN 1 ELSE IF t = EMPTY THEN 0 ELSE 4

\* the bytes of slots k..Len(decl)
RECURSIVE DeclBytes(_, _)
DeclBytes(decl, k) ==
    IF k > Len(decl) THEN 0 ELSE TypeSize(decl[k].type) + DeclBytes(decl, k + 1)

\* Anim::InputDecl::getSize
getSize(r) == DeclBytes(InputDecl(r), 1)

\* crc32("set_input")
SET_INPUT_TYPE == 1289342641
\* the type hash of a record this dispatcher does not know
OTHER_TYPE == 7
\* sizeof(Anim::SetInputEvent): int input_idx and a 4-byte union of values
SET_INPUT_EVENT_SIZE == 8
\* sizeof(type) + sizeof(cmp) + sizeof(size) in processEventStream
HEADER_SIZE == 9

\* Controller::IK as constructed: weight 0, bones_count 4
DefaultIK == [weight |-> 0, bones_count |-> 4]

\* Controller::Controller: no resource, no root, empty input; of
\* inverse_kinematics[4] the model keeps entry 0
NewController ==
    [exists |-> TRUE, resource |-> NULL, root |-> NULL, input |-> <<>>,
     animations |-> {}, ik |-> DefaultIK]
\* the entry of an entity that m_controllers does not hold
NoController == [NewController EXCEPT !.exists = FALSE]

\* last_call when the operation was none of the recorded calls
NoCall ==
    [op |-> "none", cmp |-> INVALID_ENTITY, idx |-> 0, type |-> EMPTY,
     before |-> NoController, oob |-> FALSE, result |-> 0]

\* last_upd when the operation updated no controller
NoUpdate == [replaced |-> FALSE, filled |-> FALSE, on_returned |-> TRUE]

\* the scene state a handler works on, with the history of the operation
\* that starts
Scene ==
    [c |-> controllers, sp |-> shared_parent, rs |-> res_state,
     running |-> is_game_running, es |-> event_stream, ids |-> stream_ids,
     live |-> nodes_live, redlv |-> FALSE, drop |-> FALSE, fault |-> afault,
     stale |-> stale_use, lu |-> NoUpdate, ld |-> last_drain, torn |-> {},
     call |-> NoCall, ent |-> enter_count, unent |-> unentered_use, tick |-> <<>>,
     ret |-> NULL, ovf |-> FALSE]

\* a u32 as OutputBlob::write stores it
U32(x) == <<x % 256, (x \div 256) % 256, (x \div 65536) % 256, (x \div 16777216) % 256>>

\* InputBlob::read of a u32 at byte offset pos (0-based); bytes past the end
\* read as 0
ByteAt(bytes, pos) == IF pos + 1 <= Len(bytes) THEN bytes[pos + 1] ELSE 0
ReadU32(bytes, pos) ==
    ByteAt(bytes, pos) + 256 * ByteAt(bytes, pos + 1) + 65536 * ByteAt(bytes, pos + 2)
        + 16777216 * ByteAt(bytes, pos + 3)

\* n zero bytes
Zeros(n) == [k \in 1 .. n |-> 0]

\* the records the controller nodes write: a set_input record carries a
\* SetInputEvent (input_idx, value); any other record carries payload_size
\* bytes
NoEvent == [kind |-> "none", idx |-> 0, value |-> 0, size |-> 0]
SetInputEvent(i, v) ==
    [kind |-> "set_input", idx |-> i, value |-> v, size |-> SET_INPUT_EVENT_SIZE]
OtherEvent(n) == [kind |-> "other", idx |-> 0, value |-> 0, size |-> n]
EventChoices == {SetInputEvent(i, 1) : i \in {0, 2}} \cup {OtherEvent(n) : n \in {0, 2}}
\* what a node appends in one enter or update
TickEvents == {NoEvent, SetInputEvent(1, 0), OtherEvent(2)}

\* a record as it is laid out in the blob:
\* [type_hash: u32][owner_component: u32][payload_size: u8][payload]
EncodeRecord(ev, owner) ==
    IF ev.kind = "set_input"
    THEN U32(SET_INPUT_TYPE) \o U32(owner) \o <<ev.size>> \o U32(ev.idx) \o U32(ev.value)
    ELSE U32(OTHER_TYPE) \o U32(owner) \o <<ev.size>> \o Zeros(ev.size)

\* a node appends a record to rc.event_stream
AppendRecord(a, ev, owner) ==
    IF ev.kind = "none" THEN a
    ELSE IF Len(a.ids) >= MaxEvents THEN [a EXCEPT !.ovf = TRUE]
    ELSE [a EXCEPT !.es = @ \o EncodeRecord(ev, owner),
                   !.ids = Append(@, [at |-> Len(a.es), reads |-> 0])]

\* m_event_stream.clear(); the records that were never read are lost
ClearStream(a) ==
    [a EXCEPT !.es = <<>>, !.ids = <<>>,
              !.drop = @ \/ \E k \in DOMAIN a.ids : a.ids[k].reads = 0]

\* bytes src stored at byte offset off of buf
StoreBytes(buf, off, src) ==
    [k \in DOMAIN buf |-> IF k > off /\ k <= off + Len(src) THEN src[k - off] ELSE buf[k]]

\* the switch (input.type) of processEventStream: the value of the event is
\* stored at the slot's offset of the controller's input
StoreInput(a, cmp, slot, pos) ==
    IF slot.type = EMPTY THEN a    \* default: ASSERT(false)
    ELSE IF slot.offset + TypeSize(slot.type) > Len(a.c[cmp].input)
    THEN [a EXCEPT !.fault = "input_out_of_range"]
    ELSE [a EXCEPT !.c[cmp].input =
            StoreBytes(@, slot.offset,
                       [k \in 1 .. TypeSize(slot.type) |-> ByteAt(a.es, pos + 4 + k - 1)])]

\* the if (type == set_input_type) branch of processEventStream; pos is the
\* position of the event payload.  ctrl.resource->isReady() on a null
\* resource is undefined: ub says whether the read traps or yields a state
\* other than READY
DispatchSetInput(a, cmp, pos, ub) ==
    IF cmp \notin Entities \/ ~a.c[cmp].exists
    THEN [a EXCEPT !.fault = "no_controller"]      \* m_controllers.get
    ELSE IF a.c[cmp].resource = NULL
    THEN (IF ub = "trap" THEN [a EXCEPT !.fault = "null_resource_in_drain"] ELSE a)
    ELSE IF a.rs[a.c[cmp].resource] # READY THEN a
    ELSE IF ReadU32(a.es, pos) + 1 > Len(InputDecl(a.c[cmp].resource))
    THEN [a EXCEPT !.fault = "input_out_of_range"] \* decl.inputs[event.input_idx]
    ELSE StoreInput(a, cmp, InputDecl(a.c[cmp].resource)[ReadU32(a.es, pos) + 1], pos)

\* the position after the header when a record of another type is not skipped
AfterPayload_NoSkip(bytes, pos) ==
    IF ReadU32(bytes, pos) = SET_INPUT_TYPE
    THEN pos + HEADER_SIZE + SET_INPUT_EVENT_SIZE
    ELSE pos + HEADER_SIZE

\* the position after the payload: blob.read(event) for a set_input record,
\* blob.skip(size) for any other
AfterPayload(bytes, pos) ==
    IF ReadU32(bytes, pos) = SET_INPUT_TYPE
    THEN pos + HEADER_SIZE + SET_INPUT_EVENT_SIZE
    ELSE pos + HEADER_SIZE + ByteAt(bytes, pos + 8)

\* the place in append order of the record that starts at byte offset pos,
\* 0 if no record starts there
RecordAt(ids, pos) ==
    IF \E k \in DOMAIN ids : ids[k].at = pos
    THEN CHOOSE k \in DOMAIN ids : ids[k].at = pos
    ELSE 0

\* history of one pass of the loop: the record met at pos, its declared size
\* and where the reader went
NoteRead(a, pos) ==
    [a EXCEPT !.ids = [k \in DOMAIN @ |->
                          IF @[k].at = pos THEN [@[k] EXCEPT !.reads = 1] ELSE @[k]],
              !.redlv = @ \/ \E k \in DOMAIN a.ids : a.ids[k].at = pos /\ a.ids[k].reads > 0,
              !.ld.reads = Append(@, [rec |-> RecordAt(a.ids, pos), at |-> pos,
                                      known |-> ReadU32(a.es, pos) = SET_INPUT_TYPE,
                                      size |-> ByteAt(a.es, pos + 8),
                                      next |-> AfterPayload(a.es, pos)])]

\* one pass of the while loop of processEventStream on the record at pos
ReadRecord(a, pos, ub) ==
    IF ReadU32(a.es, pos) = SET_INPUT_TYPE
    THEN DispatchSetInput(NoteRead(a, pos), ReadU32(a.es, pos + 4), pos + HEADER_SIZE, ub)
    ELSE NoteRead(a, pos)

\* the while (blob.getPosition() < blob.getSize()) loop
RECURSIVE DrainFrom(_, _, _)
DrainFrom(a, pos, ub) ==
    IF pos >= Len(a.es) \/ a.fault # "none" THEN a
    ELSE DrainFrom(ReadRecord(a, pos, ub), AfterPayload(a.es, pos), ub)

\* AnimationSceneImpl::processEventStream
processEventStream(a, ub) ==
    IF a.fault # "none" THEN a
    ELSE DrainFrom([a EXCEPT !.ld = [reads |-> <<>>, len |-> Len(a.es),
                                     count |-> Len(a.ids)]], 0, ub)

\* what the collaborators decide during one scene operation: the controllers
\* whose root node makes a transition in update, the record a node appends
\* when it is entered or updated, the entities whose pose can be locked, and
\* the outcome of reading the state of a null resource
Oracles ==
    [swap : SUBSET Entities, ev : TickEvents, pose : SUBSET (Entities \cup Followers),
     ub : {"trap", "not_ready"}]

\* the controllers that can have a root node
Runnable ==
    {e \in Entities : /\ controllers[e].exists
                      /\ controllers[e].resource # NULL
                      /\ res_state[controllers[e].resource] = READY}

\* the oracles that differ in what the operation can see, for an operation
\* that updates the controllers in es
OraclesFor(es) ==
    {o \in Oracles :
        /\ o.swap \subseteq es \cap Runnable
        /\ o.pose \subseteq (es \cap Runnable)
                        \cup {s \in Followers : es = Entities /\ shared_parent[s] \in Runnable}
        /\ o.ev # NoEvent => es \cap Runnable # {}
        /\ o.ub = "not_ready" =>
              \E e \in Entities : controllers[e].exists /\ controllers[e].resource = NULL}

\* controller.resource->isReady(); on a null resource the read is undefined
ResourceReady(a, e, ub) ==
    IF a.c[e].resource = NULL THEN ub
    ELSE IF a.rs[a.c[e].resource] = READY THEN "ready" ELSE "not_ready"

\* LUMIX_DELETE(m_allocator, controller.root); controller.root = nullptr
DeleteRoot(a, e) ==
    [a EXCEPT !.live = @ \ {a.c[e].root},
              !.ent = [n \in NodeIds |-> IF n = a.c[e].root THEN 0 ELSE @[n]],
              !.torn = IF a.c[e].root # NULL THEN @ \cup {e} ELSE @,
              !.c[e].root = NULL]

\* the teardown of setControllerResource and onControllerResourceChanged:
\* root deleted, animations and input cleared
Teardown(a, e) ==
    [DeleteRoot(a, e) EXCEPT !.c[e].animations = {}, !.c[e].input = <<>>]

\* the addresses the allocator can hand out: not of a live object, and, to
\* tell a dangling pointer from a new object, not held by any controller
FreeNodes(a) == NodeIds \ (a.live \cup {a.c[e].root : e \in Entities})
NewNode(a) == CHOOSE n \in FreeNodes(a) : \A m \in FreeNodes(a) : n <= m

\* controller.root = controller.resource->createInstance(m_allocator)
createInstance(a, e) ==
    IF FreeNodes(a) = {} THEN [a EXCEPT !.ovf = TRUE]
    ELSE [a EXCEPT !.live = @ \cup {NewNode(a)}, !.c[e].root = NewNode(a)]

\* initControllerRuntime with the root never entered
EnterRoot_NoEnter(a, e, ev) ==
    [a EXCEPT !.c[e].input = Zeros(getSize(a.c[e].resource)),
              !.c[e].animations = @ \cup {a.c[e].resource}]

\* the rest of initControllerRuntime: input resized and zeroed, the
\* animations of the set inserted, root->enter(rc, nullptr) with
\* rc.event_stream = &m_event_stream
EnterRoot(a, e, ev) ==
    AppendRecord([a EXCEPT !.c[e].input = Zeros(getSize(a.c[e].resource)),
                           !.c[e].animations = @ \cup {a.c[e].resource},
                           !.ent = [n \in NodeIds |-> IF n = a.c[e].root THEN @[n] + 1
                                                      ELSE @[n]]],
                 ev, e)

\* AnimationSceneImpl::initControllerRuntime
initControllerRuntime(a, e, o) ==
    IF a.fault # "none" THEN a
    ELSE IF ResourceReady(a, e, o.ub) = "trap" THEN [a EXCEPT !.fault = "null_resource"]
    ELSE IF ResourceReady(a, e, o.ub) # "ready" THEN a
    ELSE IF getSize(a.c[e].resource) = 0 THEN a
    ELSE EnterRoot(createInstance(a, e), e, o.ev)

\* ComponentInstance::fillPose or getRootMotion invoked on node n
UseNode(a, n) ==
    [a EXCEPT !.stale = @ \/ n \notin a.live,
              !.unent = @ \/ (n \in a.live /\ a.ent[n] = 0)]

\* ComponentInstance::update(rc, true) on rc.current: the node stays, or a
\* transition replaces it by a new node and destroys it; the value returned
\* is left in ret
NodeUpdate(a, e, o) ==
    IF e \notin o.swap THEN [UseNode(a, a.c[e].root) EXCEPT !.ret = a.c[e].root]
    ELSE IF FreeNodes(a) = {} THEN [a EXCEPT !.ovf = TRUE]
    ELSE [UseNode(a, a.c[e].root) EXCEPT
              !.live = (@ \ {a.c[e].root}) \cup {NewNode(a)},
              !.ent = [n \in NodeIds |-> IF n = NewNode(a) THEN 1
                                         ELSE IF n = a.c[e].root THEN 0 ELSE @[n]],
              !.ret = NewNode(a)]

\* controller.root keeps rc.current
StoreRoot_KeepCurrent(a, e) == a

\* controller.root = controller.root->update(rc, true)
StoreRoot(a, e) == [a EXCEPT !.c[e].root = a.ret]

\* the pose part of updateController: nothing if the entity has no model
\* instance or its pose cannot be locked, else controller.root->fillPose.
\* The history keeps whether update replaced the node, whether fillPose ran,
\* and whether the stored root and the node given to fillPose are the node
\* that update returned
FillControllerPose(a, e, o, was) ==
    IF e \notin o.pose
    THEN [a EXCEPT !.lu = [replaced |-> a.ret # was, filled |-> FALSE,
                           on_returned |-> a.c[e].root = a.ret]]
    ELSE [UseNode(a, a.c[e].root) EXCEPT
              !.lu = [replaced |-> a.ret # was, filled |-> TRUE,
                      on_returned |-> a.c[e].root = a.ret]]

\* updateController from the RunningContext on: update, store, fill the pose
RunUpdate(a, e, o) ==
    IF a.fault # "none" \/ a.ovf \/ a.c[e].root = NULL THEN a
    ELSE FillControllerPose(StoreRoot(AppendRecord(NodeUpdate(a, e, o), o.ev, e), e),
                            e, o, a.c[e].root)

\* AnimationSceneImpl::updateController(Controller&, float)
updateController(a, e, o) ==
    IF a.fault # "none" THEN a
    ELSE IF ResourceReady(a, e, o.ub) = "trap" THEN [a EXCEPT !.fault = "null_resource"]
    ELSE IF ResourceReady(a, e, o.ub) # "ready" THEN DeleteRoot(a, e)
    ELSE IF a.c[e].root = NULL THEN RunUpdate(initControllerRuntime(a, e, o), e, o)
    ELSE RunUpdate(a, e, o)

\* the history of a tick: stage st was run for entity e, and whether it
\* filled a pose and from which node
Stage(a, st, e, node, filled) ==
    [a EXCEPT !.tick = Append(@, [stage |-> st, e |-> e, node |-> node, filled |-> filled])]

\* updateSharedController that does not test the root of the parent
updateSharedController_NoRootTest(a, s, o) ==
    IF a.fault # "none" \/ a.sp[s] = NO_COMPONENT THEN a
    ELSE IF a.sp[s] = INVALID_ENTITY THEN Stage(a, "shared", s, NULL, FALSE)
    ELSE IF ~a.c[a.sp[s]].exists THEN Stage(a, "shared", s, NULL, FALSE)
    ELSE IF s \notin o.pose THEN Stage(a, "shared", s, NULL, FALSE)
    ELSE Stage(UseNode(a, a.c[a.sp[s]].root), "shared", s, a.c[a.sp[s]].root, TRUE)

\* AnimationSceneImpl::updateSharedController of the follower on entity s
updateSharedController(a, s, o) ==
    IF a.fault # "none" \/ a.sp[s] = NO_COMPONENT THEN a
    ELSE IF a.sp[s] = INVALID_ENTITY THEN Stage(a, "shared", s, NULL, FALSE)
    ELSE IF ~a.c[a.sp[s]].exists THEN Stage(a, "shared", s, NULL, FALSE)
    ELSE IF a.c[a.sp[s]].root = NULL THEN Stage(a, "shared", s, NULL, FALSE)
    ELSE IF s \notin o.pose THEN Stage(a, "shared", s, NULL, FALSE)
    ELSE Stage(UseNode(a, a.c[a.sp[s]].root), "shared", s, a.c[a.sp[s]].root, TRUE)

\* for (auto& controller : m_controllers) initControllerRuntime(controller),
\* from entity e on
RECURSIVE InitAll(_, _, _)
InitAll(a, e, o) ==
    IF e > NEntities THEN a
    ELSE InitAll(IF a.c[e].exists THEN initControllerRuntime(a, e, o) ELSE a, e + 1, o)

\* the history of the update of the controller of entity e in a tick: the
\* root it left, and whether it filled the pose of the entity
ControllerStage(a, e, o) ==
    Stage(a, "controller", e, a.c[e].root, a.c[e].root # NULL /\ e \in o.pose)

\* for (Controller& controller : m_controllers) updateController(...),
\* from entity e on
RECURSIVE UpdateAll(_, _, _)
UpdateAll(a, e, o) ==
    IF e > NEntities THEN a
    ELSE UpdateAll(IF a.c[e].exists THEN ControllerStage(updateController(a, e, o), e, o)
                   ELSE a,
                   e + 1, o)

\* for (SharedController& controller : m_shared_controllers)
\* updateSharedController(controller), from entity s on
RECURSIVE UpdateAllShared(_, _, _)
UpdateAllShared(a, s, o) ==
    IF s > NEntities + 1 THEN a
    ELSE UpdateAllShared(IF s \in Followers THEN updateSharedController(a, s, o) ELSE a,
                         s + 1, o)

\* for (auto& controller : m_controllers) { delete root; root = nullptr; },
\* from entity e on
RECURSIVE DeleteAllRoots(_, _)
DeleteAllRoots(a, e) ==
    IF e > NEntities THEN a
    ELSE DeleteAllRoots(IF a.c[e].exists THEN DeleteRoot(a, e) ELSE a, e + 1)

\* AnimationSceneImpl::onControllerResourceChanged(_, new_state, resource),
\* from entity e on
RECURSIVE onControllerResourceChanged(_, _, _, _)
onControllerResourceChanged(a, new_state, r, e) ==
    IF e > NEntities THEN a
    ELSE onControllerResourceChanged(
            IF a.c[e].exists /\ a.c[e].resource = r /\ a.c[e].root # NULL
                /\ new_state # READY
            THEN Teardown(a, e) ELSE a,
            new_state, r, e + 1)

\* AnimationSceneImpl::setControllerResource.  The observer is unbound from
\* the old resource and bound to the new one; onLoaded calls it at once with
\* READY when the resource is ready, which tears nothing down
setControllerResource(a, e, res) ==
    IF a.c[e].resource = res THEN a
    ELSE IF a.c[e].root # NULL THEN [Teardown(a, e) EXCEPT !.c[e].resource = res]
    ELSE [a EXCEPT !.c[e].resource = res]

\* the tail of setControllerSource
InitIfRunning(a, e, o) ==
    IF ResourceReady(a, e, o.ub) = "ready" /\ a.running
    THEN initControllerRuntime(a, e, o) ELSE a

\* the scene state after operation op; an operation that needs more nodes
\* or records than the bounds allow is not taken
Commit(r, op) ==
    /\ ~r.ovf
    /\ controllers' = r.c
    /\ shared_parent' = r.sp
    /\ res_state' = r.rs
    /\ is_game_running' = r.running
    /\ event_stream' = r.es
    /\ stream_ids' = r.ids
    /\ nodes_live' = r.live
    /\ redelivered' = r.redlv
    /\ dropped' = r.drop
    /\ afault' = r.fault
    /\ faulted_in' = IF r.fault # "none" THEN op ELSE "none"
    /\ stale_use' = r.stale
    /\ last_upd' = r.lu
    /\ last_torn' = r.torn
    /\ last_call' = r.call
    /\ enter_count' = r.ent
    /\ unentered_use' = r.unent
    /\ last_tick' = r.tick

CONTROLLER_TYPE == "anim_controller"
SHARED_CONTROLLER_TYPE == "shared_anim_controller"

\* the oracles of an operation that only enters nodes
EnterOracles == {o \in Oracles : o.swap = {} /\ o.pose = {}}

\* AnimationSceneImpl::createController
createController(e) ==
    /\ afault = "none"
    /\ ~controllers[e].exists
    /\ Commit([Scene EXCEPT !.c[e] = NewController], "createController")
    /\ UNCHANGED <<pvars, rvars, last_drain>>

\* AnimationSceneImpl::createSharedController
createSharedController(e) ==
    /\ afault = "none"
    /\ shared_parent[e] = NO_COMPONENT
    /\ Commit([Scene EXCEPT !.sp[e] = INVALID_ENTITY], "createSharedController")
    /\ UNCHANGED <<pvars, rvars, last_drain>>

\* AnimationSceneImpl::setSharedControllerParent
setSharedControllerParent(e, parent) ==
    /\ afault = "none"
    /\ shared_parent[e] \notin {NO_COMPONENT, parent}
    /\ Commit([Scene EXCEPT !.sp[e] = parent], "setSharedControllerParent")
    /\ UNCHANGED <<pvars, rvars, last_drain>>

\* AnimationSceneImpl::destroyComponent for the two controller types
destroyComponent(e, type) ==
    /\ afault = "none"
    /\ IF type = CONTROLLER_TYPE
       THEN /\ controllers[e].exists
            /\ Commit([setControllerResource(Scene, e, NULL) EXCEPT !.c[e] = NoController],
                      "destroyComponent")
       ELSE /\ e \in Followers
            /\ shared_parent[e] # NO_COMPONENT
            /\ Commit([Scene EXCEPT !.sp[e] = NO_COMPONENT], "destroyComponent")
    /\ UNCHANGED <<pvars, rvars, last_drain>>

\* AnimationSceneImpl::setControllerSource with the path of resource r
setControllerSource(e, r) ==
    /\ afault = "none"
    /\ controllers[e].exists
    /\ \E o \in {x \in EnterOracles : x.ub = "trap"} :
          Commit(InitIfRunning(setControllerResource(Scene, e, r), e, o), "setControllerSource")
    /\ UNCHANGED <<pvars, rvars, last_drain>>

\* AnimationSceneImpl::startGame, called when the game is not running
startGame ==
    /\ afault = "none"
    /\ ~is_game_running
    /\ \E o \in EnterOracles \cap OraclesFor(Entities) :
          Commit([InitAll(Scene, 1, o) EXCEPT !.running = TRUE], "startGame")
    /\ UNCHANGED <<pvars, rvars, last_drain>>

\* AnimationSceneImpl::stopGame, called when the game is running
stopGame ==
    /\ afault = "none"
    /\ is_game_running
    /\ Commit([DeleteAllRoots(Scene, 1) EXCEPT !.running = FALSE], "stopGame")
    /\ UNCHANGED <<pvars, rvars, last_drain>>

\* updateAnimables: the sampling jobs are run and JobSystem::wait returns
\* when all of them are done; the animables are not part of the model
updateAnimables(a) == Stage(a, "animables", INVALID_ENTITY, NULL, FALSE)

\* updatePropertyAnimators; the property animators are not part of the model
updatePropertyAnimators(a) == Stage(a, "property_animators", INVALID_ENTITY, NULL, FALSE)

\* processEventStream as the last stage of a tick
DrainStage(a, ub) == Stage(processEventStream(a, ub), "drain", INVALID_ENTITY, NULL, FALSE)

\* the body of update with the followers updated before the controllers
Tick_SharedFirst(a, o) ==
    DrainStage(UpdateAll(UpdateAllShared(updatePropertyAnimators(updateAnimables(
        ClearStream(a))), 1, o), 1, o), o.ub)

\* the body of update once the early returns are passed
Tick(a, o) ==
    DrainStage(UpdateAllShared(UpdateAll(updatePropertyAnimators(updateAnimables(
        ClearStream(a))), 1, o), 1, o), o.ub)

\* AnimationSceneImpl::update(time_delta, paused)
update(paused) ==
    /\ afault = "none"
    /\ IF ~is_game_running \/ paused
       THEN Commit([Scene EXCEPT !.call.op = "update_skipped"], "update_skipped")
       ELSE \E o \in OraclesFor(Entities) :
               Commit(Tick([Scene EXCEPT !.call.op = "update"], o), "update")
    /\ UNCHANGED <<pvars, rvars, last_drain>>

\* AnimationSceneImpl::updateController(ComponentHandle, float)
updateController_cmp(e) ==
    /\ afault = "none"
    /\ controllers[e].exists
    /\ \E o \in OraclesFor({e}) :
          Commit(ClearStream(processEventStream(updateController(Scene, e, o), o.ub)),
                 "updateController")
    /\ UNCHANGED <<pvars, rvars, last_drain>>

\* AnimationSceneImpl::getControllerRootMotion
getControllerRootMotion(e) ==
    /\ afault = "none"
    /\ controllers[e].exists
    /\ Commit(IF controllers[e].root # NULL THEN UseNode(Scene, controllers[e].root)
              ELSE Scene,
              "getControllerRootMotion")
    /\ UNCHANGED <<pvars, rvars, last_drain>>

\* Resource::onStateChanged of controller resource r: the state changes and
\* the observers are called
ResourceStateChanged(r, new_state) ==
    /\ afault = "none"
    /\ res_state[r] # new_state
    /\ Commit(onControllerResourceChanged([Scene EXCEPT !.rs[r] = new_state],
                                          new_state, r, 1),
              "onControllerResourceChanged")
    /\ UNCHANGED <<pvars, rvars, last_drain>>

(***************************************************************************)
(* Animation scene: script and editor calls on a controller               *)
(***************************************************************************)
MAX_BONES_COUNT == 8       \* Controller::IK::MAX_BONES_COUNT

\* the indices a caller passes: below, inside and past decl.inputs
InputIndices == -1 .. Len(InputDecl(1))

\* the bytes of the value 1 as the setter of the type stores it
ValueBytes(type) ==
    IF type = FLOAT THEN <<0, 0, 128, 63>> ELSE IF type = INT THEN U32(1) ELSE <<1>>

\* the history of a call on the controller of entity e
NoteCall(a, op, e, idx, type) ==
    [a EXCEPT !.call = [op |-> op, cmp |-> e, idx |-> idx, type |-> type,
                        before |-> a.c[e], oob |-> FALSE, result |-> 0]]

\* if (!controller.root) is the test that lets a call through always
HasRuntime_Always(c) == TRUE

\* if (!controller.root) { warning; return; }
HasRuntime(c) == c.root # NULL

\* the type test that accepts every declared slot
SlotAccepts_Declared(slot, type) == slot.type # EMPTY

\* decl.inputs[input_idx].type == the type of the setter
SlotAccepts(slot, type) == slot.type = type

\* *(T*)&controller.input[decl.inputs[input_idx].offset] = value
WriteSlot(a, e, slot, type) ==
    IF slot.offset + TypeSize(type) > Len(a.c[e].input)
    THEN [a EXCEPT !.fault = "input_out_of_range"]
    ELSE [a EXCEPT !.c[e].input = StoreBytes(@, slot.offset, ValueBytes(type))]

\* decl.inputs[input_idx] with input_idx outside the array: the read is
\* undefined; what is read either passes the type test or not, and if it
\* does the write goes to an offset that is garbage too
ReadPastDecl(a, ub) ==
    IF ub = "matches"
    THEN [a EXCEPT !.call.oob = TRUE, !.fault = "wild_write"]
    ELSE [a EXCEPT !.call.oob = TRUE]

\* the setter from decl on: the range tests the setter has (low: input_idx <
\* 0, high: input_idx >= lengthOf(decl.inputs)), the type test, the write
SetSlot(a, e, idx, type, low, high, ub) ==
    IF a.c[e].resource = NULL THEN [a EXCEPT !.fault = "null_resource"]
    ELSE IF (low /\ idx < 0) \/ (high /\ idx >= Len(InputDecl(a.c[e].resource))) THEN a
    ELSE IF idx < 0 \/ idx >= Len(InputDecl(a.c[e].resource)) THEN ReadPastDecl(a, ub)
    ELSE IF SlotAccepts(InputDecl(a.c[e].resource)[idx + 1], type)
    THEN WriteSlot(a, e, InputDecl(a.c[e].resource)[idx + 1], type)
    ELSE a

\* setControllerFloatInput, setControllerIntInput, setControllerBoolInput:
\* the root is tested first; only the float setter tests the index
ScriptSetter(a, e, idx, type, ub) ==
    IF ~HasRuntime(a.c[e]) THEN a
    ELSE SetSlot(a, e, idx, type, type = FLOAT, type = FLOAT, ub)

\* the setControllerInput overloads: decl is formed before the root test, an
\* address computation that reads nothing; the index is tested from above
EditorSetter(a, e, idx, type, ub) ==
    IF a.c[e].root = NULL THEN a
    ELSE SetSlot(a, e, idx, type, FALSE, TRUE, ub)

\* the outcomes of an undefined read of a slot
SlotReads == {"matches", "differs"}

\* AnimationSceneImpl::setControllerFloatInput
setControllerFloatInput(e, idx) ==
    /\ afault = "none"
    /\ controllers[e].exists
    /\ \E ub \in SlotReads :
          Commit(ScriptSetter(NoteCall(Scene, "setControllerFloatInput", e, idx, FLOAT),
                              e, idx, FLOAT, ub),
                 "setControllerFloatInput")
    /\ UNCHANGED <<pvars, rvars, last_drain>>

\* AnimationSceneImpl::setControllerIntInput
setControllerIntInput(e, idx) ==
    /\ afault = "none"
    /\ controllers[e].exists
    /\ \E ub \in SlotReads :
          Commit(ScriptSetter(NoteCall(Scene, "setControllerIntInput", e, idx, INT),
                              e, idx, INT, ub),
                 "setControllerIntInput")
    /\ UNCHANGED <<pvars, rvars, last_drain>>

\* AnimationSceneImpl::setControllerBoolInput
setControllerBoolInput(e, idx) ==
    /\ afault = "none"
    /\ controllers[e].exists
    /\ \E ub \in SlotReads :
          Commit(ScriptSetter(NoteCall(Scene, "setControllerBoolInput", e, idx, BOOL),
                              e, idx, BOOL, ub),
                 "setControllerBoolInput")
    /\ UNCHANGED <<pvars, rvars, last_drain>>

\* AnimationSceneImpl::setControllerInput(cmp, input_idx, value), the
\* overload for a value of the type
setControllerInput(e, idx, type) ==
    /\ afault = "none"
    /\ controllers[e].exists
    /\ \E ub \in SlotReads :
          Commit(EditorSetter(NoteCall(Scene, "setControllerInput", e, idx, type),
                              e, idx, type, ub),
                 "setControllerInput")
    /\ UNCHANGED <<pvars, rvars, last_drain>>

\* the loop of getControllerInputIndex for the name of slot idx: the index of
\* the slot if it is declared, else -1
FindInput(decl, idx) == IF decl[idx + 1].type # EMPTY THEN idx ELSE -1

\* AnimationSceneImpl::getControllerInputIndex; controller.resource is not
\* tested, and reading the declaration of a null resource is undefined: the
\* read traps or finds no such name
InputIndexOf(a, e, idx, ub) ==
    IF a.c[e].resource = NULL
    THEN (IF ub = "trap" THEN [a EXCEPT !.fault = "null_resource"]
          ELSE [a EXCEPT !.call.result = -1])
    ELSE [a EXCEPT !.call.result = FindInput(InputDecl(a.c[e].resource), idx)]

getControllerInputIndex(e, idx) ==
    /\ afault = "none"
    /\ controllers[e].exists
    /\ \E ub \in {"trap", "not_ready"} :
          Commit(InputIndexOf(NoteCall(Scene, "getControllerInputIndex", e, idx, EMPTY),
                              e, idx, ub),
                 "getControllerInputIndex")
    /\ UNCHANGED <<pvars, rvars, last_drain>>

\* AnimationSceneImpl::setIK on inverse_kinematics[0] with weight 1 and
\* count bone names: weight and bones_count are stored, then a count above
\* MAX_BONES_COUNT raises the Lua error (result 1)
StoreIK(a, e, count) ==
    [a EXCEPT !.c[e].ik = [weight |-> 1, bones_count |-> count],
              !.call.result = IF count > MAX_BONES_COUNT THEN 1 ELSE 0]

\* AnimationSceneImpl::setIK; index is not tested against the array
setIK(e, index, count) ==
    /\ afault = "none"
    /\ controllers[e].exists
    /\ IF index >= IK_COUNT
       THEN \E ub \in SlotReads :
               Commit(ReadPastDecl(NoteCall(Scene, "setIK", e, index, EMPTY), ub), "setIK")
       ELSE Commit(StoreIK(NoteCall(Scene, "setIK", e, index, EMPTY), e, count), "setIK")
    /\ UNCHANGED <<pvars, rvars, last_drain>>

\* AnimationSceneImpl::AnimationSceneImpl: no components, game not running,
\* no resource loaded
AnimInit ==
    /\ controllers = [e \in Entities |-> NoController]
    /\ shared_parent = [e \in Followers |-> NO_COMPONENT]
    /\ res_state = [r \in Resources |-> EMPTY]
    /\ is_game_running = FALSE
    /\ event_stream = <<>>
    /\ stream_ids = <<>>
    /\ nodes_live = {}
    /\ redelivered = FALSE
    /\ dropped = FALSE
    /\ afault = "none"
    /\ faulted_in = "none"
    /\ stale_use = FALSE
    /\ last_upd = NoUpdate
    /\ last_drain = [reads |-> <<>>, len |-> 0, count |-> 0]
    /\ last_torn = {}
    /\ last_call = NoCall
    /\ enter_count = [n \in NodeIds |-> IF n \in nodes_live THEN 1 ELSE 0]
    /\ unentered_use = FALSE
    /\ last_tick = <<>>

AnimNext ==
    \/ \E e \in Actors : createController(e)
    \/ \E e \in Followers : createSharedController(e)
    \/ \E e \in Followers, p \in Entities : setSharedControllerParent(e, p)
    \/ \E e \in Actors, t \in {CONTROLLER_TYPE, SHARED_CONTROLLER_TYPE} : destroyComponent(e, t)
    \/ \E e \in Actors, r \in Resources : setControllerSource(e, r)
    \/ startGame
    \/ stopGame
    \/ \E paused \in BOOLEAN : update(paused)
    \/ \E e \in Actors : updateController_cmp(e)
    \/ \E e \in Actors : getControllerRootMotion(e)
    \/ \E r \in Resources, s \in ResStates : ResourceStateChanged(r, s)

vars == <<rvars, avars, pvars>>

\* the physics scene with one ragdoll
Init == RagdollInit /\ AnimInit /\ IkIdle
Next == RagdollNext
Spec == Init /\ [][Next]_vars

\* the animation scene; the ragdoll stays as created, on the chain skeleton
AnimSpecInit == Init /\ skel = [i \in SkelIdx |-> i - 1]
AnimSpec == AnimSpecInit /\ [][AnimNext]_vars

\* the rigid actors, heightfield, controller and joint; the ragdoll stays as
\* created, on the chain skeleton
PhysSpec == AnimSpecInit /\ [][PhysNext]_vars

\* updateIK on every chain and target
IkInit == RagdollInit /\ AnimInit /\ skel = [i \in SkelIdx |-> i - 1] /\ ik_solve \in IkInputs
IkSpec == IkInit /\ [][IkNext]_vars

\* a property animator plays curves
PropSpec == AnimSpecInit /\ [][PropNext]_vars

\* streams of every version and shape are deserialized
LoadSpec == AnimSpecInit /\ [][LoadNext]_vars

\* collision layers are added and removed under an actor, a controller and
\* a terrain
LayerSpec == AnimSpecInit /\ [][LayerNext]_vars

\* layers are made to collide and not to collide
FilterSpec == AnimSpecInit /\ [][FilterNext]_vars

\* actor components are created on and removed from the entities
HandleSpec == AnimSpecInit /\ [][HandleNext]_vars

\* forces are queued for box and mesh actors and applied by the update
ForceSpec == AnimSpecInit /\ [][ForceNext]_vars

\* the chains of a controller are set and solved
ChainSpec == AnimSpecInit /\ [][ChainNext]_vars

\* animables are created and sampled by the jobs of updateAnimables
JobsSpec == AnimSpecInit /\ [][JobsNext]_vars

\* updateAnimable on animations of every length; a loop that can take a turn
\* or exit does so
WrapSpec == AnimSpecInit /\ [][WrapNext]_vars /\ WF_vars(WrapTurn) /\ WF_vars(WrapExit)

\* a node of the controller on entity owner appends a record
queueEvent(ev, owner) ==
    /\ afault = "none"
    /\ controllers[owner].root # NULL
    /\ Commit(AppendRecord(Scene, ev, owner), "queueEvent")
    /\ UNCHANGED <<pvars, rvars, last_drain>>

\* processEventStream(); m_event_stream.clear(); as updateController(cmp, dt)
\* ends, with the reads kept in last_drain
drainEvents ==
    /\ afault = "none"
    /\ event_stream # <<>>
    /\ \E ub \in {"trap", "not_ready"} :
          LET r == processEventStream(Scene, ub)
          IN  Commit(ClearStream(r), "drainEvents") /\ last_drain' = r.ld
    /\ UNCHANGED <<pvars, rvars>>

\* the scene once every entity carries a controller of resource 1, the
\* resource is ready and startGame has entered the roots without a record
StreamInit ==
    /\ RagdollInit
    /\ IkIdle
    /\ skel = [i \in SkelIdx |-> i - 1]
    /\ controllers = [e \in Entities |->
                         [exists |-> TRUE, resource |-> 1, root |-> e,
                          input |-> Zeros(getSize(1)), animations |-> {1},
                          ik |-> DefaultIK]]
    /\ shared_parent = [e \in Followers |-> NO_COMPONENT]
    /\ res_state = [r \in Resources |-> IF r = 1 THEN READY ELSE EMPTY]
    /\ is_game_running = TRUE
    /\ event_stream = <<>>
    /\ stream_ids = <<>>
    /\ nodes_live = Entities
    /\ redelivered = FALSE
    /\ dropped = FALSE
    /\ afault = "none"
    /\ faulted_in = "none"
    /\ stale_use = FALSE
    /\ last_upd = NoUpdate
    /\ last_drain = [reads |-> <<>>, len |-> 0, count |-> 0]
    /\ last_torn = {}
    /\ last_call = NoCall
    /\ enter_count = [n \in NodeIds |-> IF n \in nodes_live THEN 1 ELSE 0]
    /\ unentered_use = FALSE
    /\ last_tick = <<>>

StreamNext ==
    \/ \E ev \in EventChoices, e \in Actors : queueEvent(ev, e)
    \/ drainEvents

\* the event stream between its writers and its reader
StreamSpec == StreamInit /\ [][StreamNext]_vars

\* what the controller of entity e can be when a call arrives: created and
\* never given a source; given a source and never started; started by
\* startGame with resource 1 ready; stopped again by stopGame
ControllerStates(e) ==
    {NewController}
        \cup {[NewController EXCEPT !.resource = r] : r \in Resources}
        \cup {[NewController EXCEPT !.resource = 1, !.root = e,
                                    !.input = Zeros(getSize(1)), !.animations = {1}],
              [NewController EXCEPT !.resource = 1,
                                    !.input = Zeros(getSize(1)), !.animations = {1}]}

InputInit ==
    /\ RagdollInit
    /\ IkIdle
    /\ skel = [i \in SkelIdx |-> i - 1]
    /\ controllers \in {c \in [Entities -> UNION {ControllerStates(e) \cup {NoController} :
                                                    e \in Entities}] :
                          \A e \in Entities : IF e \in Actors THEN c[e] \in ControllerStates(e)
                                               ELSE c[e] = NoController}
    /\ shared_parent = [e \in Followers |-> NO_COMPONENT]
    /\ res_state \in {rs \in [Resources -> {EMPTY, READY}] :
                        \A e \in Entities : controllers[e].root # NULL => rs[1] = READY}
    /\ is_game_running = (\E e \in Entities : controllers[e].root # NULL)
    /\ event_stream = <<>>
    /\ stream_ids = <<>>
    /\ nodes_live = {controllers[e].root : e \in Entities} \ {NULL}
    /\ redelivered = FALSE
    /\ dropped = FALSE
    /\ afault = "none"
    /\ faulted_in = "none"
    /\ stale_use = FALSE
    /\ last_upd = NoUpdate
    /\ last_drain = [reads |-> <<>>, len |-> 0, count |-> 0]
    /\ last_torn = {}
    /\ last_call = NoCall
    /\ enter_count = [n \in NodeIds |-> IF n \in nodes_live THEN 1 ELSE 0]
    /\ unentered_use = FALSE
    /\ last_tick = <<>>

InputNext ==
    \/ \E e \in Actors, i \in InputIndices : setControllerFloatInput(e, i)
    \/ \E e \in Actors, i \in InputIndices : setControllerIntInput(e, i)
    \/ \E e \in Actors, i \in InputIndices : setControllerBoolInput(e, i)
    \/ \E e \in Actors, i \in InputIndices, t \in {FLOAT, INT, BOOL} :
          setControllerInput(e, i, t)
    \/ \E e \in Actors, i \in {0, 3} : getControllerInputIndex(e, i)
    \/ \E e \in Actors, i \in {0, IK_COUNT}, n \in {2, MAX_BONES_COUNT + 1} : setIK(e, i, n)

\* the calls of scripts and editor on a controller
InputSpec == InputInit /\ [][InputNext]_vars

\* a scene with controllers on all entities and a shared controller when a
\* tick arrives: every controller in one of its states, the follower absent,
\* without parent or with any entity as parent, the game running or not (a
\* root outlives a stopped game when updateController(cmp, dt) made it)
TickInit ==
    /\ RagdollInit
    /\ IkIdle
    /\ skel = [i \in SkelIdx |-> i - 1]
    /\ controllers \in {c \in [Entities -> UNION {ControllerStates(e) \cup {NoController} :
                                                    e \in Entities}] :
                          \A e \in Entities : c[e] \in ControllerStates(e) \cup {NoController}}
    /\ shared_parent \in [Followers -> {NO_COMPONENT, INVALID_ENTITY} \cup Entities]
    /\ res_state \in {rs \in [Resources -> {EMPTY, READY}] :
                        \A e \in Entities : controllers[e].root # NULL => rs[1] = READY}
    /\ is_game_running \in BOOLEAN
    /\ event_stream = <<>>
    /\ stream_ids = <<>>
    /\ nodes_live = {controllers[e].root : e \in Entities} \ {NULL}
    /\ redelivered = FALSE
    /\ dropped = FALSE
    /\ afault = "none"
    /\ faulted_in = "none"
    /\ stale_use = FALSE
    /\ last_upd = NoUpdate
    /\ last_drain = [reads |-> <<>>, len |-> 0, count |-> 0]
    /\ last_torn = {}
    /\ last_call = NoCall
    /\ enter_count = [n \in NodeIds |-> IF n \in nodes_live THEN 1 ELSE 0]
    /\ unentered_use = FALSE
    /\ last_tick = <<>>

TickNext == \E paused \in BOOLEAN : update(paused)

\* the ticks of a scene with several controllers
TickSpec == TickInit /\ [][TickNext]_vars



(***************************************************************************)
(* Ragdoll properties                                                      *)
(***************************************************************************)
\* the bones met from b along next, up to n steps; deleted cells are not followed
RECURSIVE NextChain(_, _)
NextChain(b, n) ==
    IF b = NULL \/ b \notin live \/ n = 0 THEN {}
    ELSE {b} \cup NextChain(bones[b].next, n - 1)

\* following next from b ends at nullptr
RECURSIVE EndsAtNull(_, _)
EndsAtNull(b, n) ==
    IF b = NULL THEN TRUE
    ELSE IF n = 0 \/ b \notin live THEN FALSE
    ELSE EndsAtNull(bones[b].next, n - 1)

\* C1: every sibling list is acyclic and doubly consistent: for every bone b,
\* b.next != null implies b.next.prev == b, and b.prev != null implies
\* b.prev.next == b (a link to a deleted bone is not consistent)
C1_SiblingListsConsistent ==
    \A b \in live :
        /\ bones[b].next # NULL =>
              bones[b].next \in live /\ bones[bones[b].next].prev = b
        /\ bones[b].prev # NULL =>
              bones[b].prev \in live /\ bones[bones[b].prev].next = b
        /\ EndsAtNull(b, MaxAlloc + 1)

\* C2: exactly one root chain per ragdoll: every live bone without a parent
\* is on the sibling list that starts at ragdoll.root, and ragdoll.root has
\* prev == null
C2_OneRootChain ==
    /\ \A b \in live : bones[b].parent = NULL => b \in NextChain(root, MaxAlloc + 1)
    /\ root # NULL => bones[root].prev = NULL

\* C3: a bone has a parent_joint if and only if it has a parent
C3_JointIffParent ==
    \A b \in live : (bones[b].parent_joint # NO_JOINT) <=> (bones[b].parent # NULL)

\* a bone was destroyed between its parent and its child, and the child is
\* now joined to that parent
C3_Witness ==
    /\ rlast.op = "destroy"
    /\ rlast.was_parent # NULL
    /\ rlast.was_child \in live
    /\ bones[rlast.was_child].parent = rlast.was_parent
    /\ bones[rlast.was_child].parent_joint = REVOLUTE

\* C4: createRagdollBone gives the new bone the ragdoll bone of its nearest
\* skeleton ancestor that has a ragdoll body as parent, and leaves it a
\* parentless entry of the root list when there is none
C4_NewBoneParent ==
    rlast.op = "create" =>
        /\ bones[rlast.bone].parent = rlast.expected
        /\ rlast.expected = NULL => rlast.bone \in NextChain(root, MaxAlloc + 1)

\* a bone was created whose direct skeleton parent has no ragdoll body while
\* a farther ancestor has one, and it hangs under that ancestor
C4_Witness ==
    /\ rlast.op = "create"
    /\ rlast.expected # NULL
    /\ bones[rlast.expected].pose_bone_idx # skel[bones[rlast.bone].pose_bone_idx]
    /\ bones[rlast.bone].parent = rlast.expected

\* C5: for every bone X, X.parent is the ragdoll bone of X's nearest skeleton
\* ancestor that has a ragdoll body
C5_EveryBoneUnderNearestBody ==
    \A x \in live :
        bones[x].parent = NearestBody(bones, live, skel, bones[x].pose_bone_idx)


(***************************************************************************)
(* Animation scene properties                                              *)
(***************************************************************************)

\* C6: in updateController the root stored in the controller is the node
\* that update returned and fillPose is given that node; no destroyed node is
\* updated, asked for a pose or root motion, or left in a controller where a
\* follower would find it.
C6_FillPoseOnReturnedNode ==
    /\ last_upd.on_returned
    /\ ~stale_use
    /\ \A e \in Entities : controllers[e].root # NULL => controllers[e].root \in nodes_live

\* update replaced the root node and fillPose ran on the controller
C6_Witness == last_upd.replaced /\ last_upd.filled /\ afault = "none"

\* C7: a controller whose root an operation has just deleted has no root and
\* an empty input buffer.
C7_TeardownClearsInput ==
    \A e \in last_torn : controllers[e].root = NULL /\ controllers[e].input = <<>>

\* C8: startGame and update never fault on a controller whose resource is
\* null.
C8_MissingResourceSkipped ==
    ~(afault = "null_resource" /\ faulted_in \in {"startGame", "update"})

\* C9: no operation clears a record that was never dispatched, and none
\* dispatches a record that was dispatched before.
C9_EveryRecordDispatchedOnce == ~dropped /\ ~redelivered

\* C10: a drain reads the records in append order, the first at offset 0 and
\* each next one header plus declared payload size further, whether the type
\* is known or not, and ends at the byte length of the stream having read
\* every record.
C10_RecordsFramed ==
    LET reads == last_drain.reads
    IN  /\ \A k \in DOMAIN reads :
              /\ reads[k].rec = k
              /\ reads[k].at = (IF k = 1 THEN 0 ELSE reads[k - 1].next)
              /\ reads[k].next = reads[k].at + HEADER_SIZE + reads[k].size
        /\ afault = "none" =>
              /\ Len(reads) = last_drain.count
              /\ reads # <<>> => reads[Len(reads)].next = last_drain.len

\* a drain met a record of another type with a payload, then a set_input
\* record
C10_Witness ==
    /\ Len(last_drain.reads) = 2
    /\ ~last_drain.reads[1].known /\ last_drain.reads[1].size = 2
    /\ last_drain.reads[2].known
    /\ afault = "none"

(***************************************************************************)
(* Properties of the script and editor calls                              *)
(***************************************************************************)
ScriptSetters ==
    {"setControllerFloatInput", "setControllerIntInput", "setControllerBoolInput"}
Setters == ScriptSetters \cup {"setControllerInput"}
ScriptCalls == ScriptSetters \cup {"getControllerInputIndex", "setIK"}

\* the last call went to a controller and left it as it was, without a fault
CallWasNoop ==
    afault = "none" /\ ~last_call.oob /\ controllers[last_call.cmp] = last_call.before

\* the index of the last call is outside decl.inputs
IndexOutOfRange == last_call.idx < 0 \/ last_call.idx >= Len(InputDecl(1))

\* C11: setControllerFloatInput on a controller with no bound resource does
\* not fault and changes nothing of the controller (resource, root, input,
\* animations, IK)
C11_FloatInputWithoutResourceIsNoop ==
    (last_call.op = "setControllerFloatInput" /\ last_call.before.resource = NULL)
        => afault = "none" /\ controllers[last_call.cmp] = last_call.before
C11_Witness ==
    /\ last_call.op = "setControllerFloatInput"
    /\ last_call.before.resource = NULL
    /\ last_call.idx = 0

\* C12: every script call (the three input setters, getControllerInputIndex,
\* setIK) on a controller whose root is null, a controller with no resource
\* included, is a no-op that does not fault
C12_ScriptCallsBeforeRuntimeAreNoops ==
    (last_call.op \in ScriptCalls /\ last_call.before.root = NULL) => CallWasNoop

\* C13: an input setter called with an index below 0 or not below the number
\* of slots leaves the input as it was and reads or writes no slot outside
\* the declaration
C13_OutOfRangeIndexIsNoop ==
    (last_call.op \in Setters /\ IndexOutOfRange)
        => /\ afault = "none"
           /\ ~last_call.oob
           /\ controllers[last_call.cmp].input = last_call.before.input

\* C14: an input setter whose value type is not the declared type of the
\* slot leaves every byte of the input as it was
C14_TypeMismatchSkipsWrite ==
    (/\ last_call.op \in Setters
     /\ ~IndexOutOfRange
     /\ last_call.before.resource # NULL
     /\ InputDecl(last_call.before.resource)[last_call.idx + 1].type # last_call.type)
        => controllers[last_call.cmp].input = last_call.before.input
C14_Witness ==
    /\ last_call.op \in Setters
    /\ last_call.before.root # NULL
    /\ last_call.idx = 0
    /\ last_call.type = BOOL
    /\ afault = "none"

(***************************************************************************)
(* Properties of the controller runtime                                   *)
(***************************************************************************)
\* C15: every root node a controller holds has been entered exactly once, and
\* no update or fillPose is invoked on a node that has not been entered
C15_RootEnteredOnceBeforeUse ==
    /\ ~unentered_use
    /\ \A n \in nodes_live : enter_count[n] = 1
C15_Witness ==
    \E e \in Entities :
        /\ controllers[e].root \in nodes_live
        /\ enter_count[controllers[e].root] = 1
        /\ last_upd.filled
        /\ ~last_upd.replaced

\* C16: a root is created only into a controller whose root is null: no
\* sequence of operations overwrites a live root, so every node that is
\* created and not destroyed is the root of a controller
C16_NoLiveRootOverwritten ==
    \A n \in nodes_live : \E e \in Entities : controllers[e].exists /\ controllers[e].root = n

\* a tick ran in the last operation
TickRan == last_tick # <<>>

\* C17: after an update of a running, unpaused scene every controller with a
\* ready resource has its runtime: the root is non-null and the input has
\* the size of the declaration, also when the declaration is empty
C17_ReadyControllerGetsRuntime ==
    (TickRan /\ afault = "none") =>
        \A e \in Entities :
            (/\ controllers[e].exists
             /\ controllers[e].resource # NULL
             /\ res_state[controllers[e].resource] = READY)
                => /\ controllers[e].root # NULL
                   /\ Len(controllers[e].input) = getSize(controllers[e].resource)

\* the positions of last_tick that hold stage st
StagesAt(st) == {i \in 1 .. Len(last_tick) : last_tick[i].stage = st}

\* C18: a tick runs its stages in a fixed order: animables, property
\* animators, the controllers in container order, the shared controllers,
\* the drain of the event stream last; an update of a scene that is not
\* running or is paused runs none of them
C18_TickStageOrder ==
    /\ TickRan => last_call.op = "update"
    /\ (last_call.op = "update" /\ afault = "none") =>
          /\ last_tick[1].stage = "animables"
          /\ last_tick[2].stage = "property_animators"
          /\ last_tick[Len(last_tick)].stage = "drain"
          /\ Cardinality(StagesAt("drain")) = 1
          /\ \A i \in StagesAt("controller"), j \in StagesAt("shared") : i < j
          /\ \A i, j \in StagesAt("controller") : i < j => last_tick[i].e < last_tick[j].e
          /\ {last_tick[i].e : i \in StagesAt("controller")}
                = {e \in Entities : controllers[e].exists}
          /\ {last_tick[i].e : i \in StagesAt("shared")}
                = {s \in Followers : shared_parent[s] # NO_COMPONENT}
    /\ (last_call.op = "update_skipped") => ~TickRan
C18_Witness ==
    /\ TickRan
    /\ afault = "none"
    /\ Cardinality(StagesAt("controller")) > 1
    /\ StagesAt("shared") # {}

\* C19: in a tick the pose of a shared controller is filled from the root
\* its parent's controller holds after that controller's update of the tick,
\* and it is not touched when the parent is invalid, has no controller or
\* has no root
C19_FollowerFilledFromMasterRoot ==
    \A j \in StagesAt("shared") :
        LET s == last_tick[j].e
            p == shared_parent[s]
        IN IF p = INVALID_ENTITY \/ ~controllers[p].exists \/ controllers[p].root = NULL
           THEN ~last_tick[j].filled
           ELSE last_tick[j].filled =>
                   /\ last_tick[j].node = controllers[p].root
                   /\ \E i \in StagesAt("controller") :
                         /\ i < j
                         /\ last_tick[i].e = p
                         /\ last_tick[i].node = last_tick[j].node
C19_Witness ==
    \E j \in StagesAt("shared") : last_tick[j].filled /\ last_upd.replaced

(***************************************************************************)
(* Properties of saving and loading ragdolls                              *)
(***************************************************************************)
\* C20: saving the ragdoll and loading it at the latest version gives back
\* the number of bones, the tree (parent, child, next and prev of every
\* bone, by pose_bone_idx) and the presence and type of every joint, and
\* reaches no assertion
C20_ReloadReproducesRagdoll ==
    rlast.op = "reload" =>
        /\ ~reloaded.asserted
        /\ ~rfault
        /\ Cardinality(live) = reloaded.count
        /\ Shape(bones, live) = reloaded.shape

(***************************************************************************)
(* Properties of the ragdoll tree operations                              *)
(***************************************************************************)
\* the bones of the ragdoll that have no parent
Parentless == {b \in live : bones[b].parent = NULL}

\* C27: in every state of a ragdoll that has bones exactly one bone has
\* parent == null, and ragdoll.root points to it
C27_ExactlyOneParentless ==
    live # {} => Parentless = {root}

\* C27 as the code keeps it: ragdoll.root of a ragdoll that has bones points
\* to a bone without parent; there can be more than one such bone
C27_RootIsParentless ==
    live # {} => root \in Parentless
C27_Witness ==
    Cardinality(Parentless) > 1 /\ root \in Parentless

\* C28: after disconnect(bone) every former child of bone has bone's former
\* parent as parent and a new joint to it, or, if bone had no parent, is a
\* parentless joint-less entry of the root list; bone has no parent, child
\* or joint and is an entry of the root list reachable from ragdoll.root
C28_DisconnectLeavesRootEntry ==
    disconnected.bone # NULL =>
        LET d == disconnected
            roots == ChainFrom(d.b, live \cup {d.bone}, d.root, MaxAlloc + 1)
        IN  /\ \A c \in d.children :
                  /\ d.b[c].parent = d.was_parent
                  /\ IF d.was_parent # NULL THEN d.b[c].parent_joint = REVOLUTE
                     ELSE d.b[c].parent_joint = NO_JOINT /\ c \in roots
            /\ d.b[d.bone].parent = NULL
            /\ d.b[d.bone].child = NULL
            /\ d.b[d.bone].parent_joint = NO_JOINT
            /\ d.bone \in roots

\* the calls of connect in the last createRagdollBone whose child had neither
\* a parent nor children
ConnectCalls ==
    {connected[k] : k \in {x \in DOMAIN connected :
        /\ connected[x].b0[connected[x].child].parent = NULL
        /\ connected[x].b0[connected[x].child].child = NULL}}

\* C29: connect(child, parent) on a child without parent and children links
\* the child's former neighbours to each other, moves ragdoll.root on if it was
\* the child, makes the child the first entry of parent's child list with
\* prev == null and parent == parent, creates a revolute joint and changes no
\* other bone's parent or child link
C29_ConnectLinksFirstChild ==
    \A c \in ConnectCalls :
        /\ c.b0[c.child].next # NULL => c.b1[c.b0[c.child].next].prev = c.b0[c.child].prev
        /\ c.b0[c.child].prev # NULL => c.b1[c.b0[c.child].prev].next = c.b0[c.child].next
        /\ c.root1 = IF c.root0 = c.child THEN c.b0[c.child].next ELSE c.root0
        /\ c.b1[c.parent].child = c.child
        /\ c.b1[c.child].next = c.b0[c.parent].child
        /\ c.b0[c.parent].child # NULL => c.b1[c.b0[c.parent].child].prev = c.child
        /\ c.b1[c.child].prev = NULL
        /\ c.b1[c.child].parent = c.parent
        /\ c.b1[c.child].parent_joint = REVOLUTE
        /\ \A x \in BoneIds \ {c.child} : c.b1[x].parent = c.b0[x].parent
        /\ \A x \in BoneIds \ {c.parent} : c.b1[x].child = c.b0[x].child
C29_Witness ==
    \E c \in ConnectCalls :
        /\ c.root0 = c.child
        /\ c.b0[c.child].next # NULL
        /\ c.b0[c.parent].child # NULL
        /\ c.root1 = c.b0[c.child].next

\* the positions in the release order of the last teardown at which the SDK
\* object what of bone x is released
Released(what, x) ==
    {k \in DOMAIN torn.rel : torn.rel[k] = [what |-> what, bone |-> x]}

\* position of the release of the body of bone x
BodyAt(x) == CHOOSE k \in Released("actor", x) : TRUE

\* C30: destroying a ragdoll component releases every bone's body exactly
\* once and its joint, if it has one, exactly once and before the body, after
\* the bone's next siblings and children were released; no bone is left
\* unreleased and nothing is released twice
C30_TeardownReleasesEachOnce ==
    torn.done =>
        /\ live = {}
        /\ \A k \in DOMAIN torn.rel : torn.rel[k].bone \in torn.live
        /\ \A x \in torn.live :
              /\ Cardinality(Released("actor", x)) = 1
              /\ Cardinality(Released("joint", x))
                    = (IF torn.b[x].parent_joint # NO_JOINT THEN 1 ELSE 0)
              /\ \A k \in Released("joint", x) : k + 1 = BodyAt(x)
              /\ \A y \in {torn.b[x].next, torn.b[x].child} \ {NULL} :
                    /\ Cardinality(Released("actor", y)) = 1
                    /\ BodyAt(y) < BodyAt(x)
C30_Witness ==
    /\ torn.done
    /\ Cardinality(torn.live) >= 3
    /\ \E x \in torn.live : torn.b[x].next # NULL /\ torn.b[x].child # NULL
    /\ \E x \in torn.live : torn.b[x].parent_joint # NO_JOINT

(***************************************************************************)
(* Properties of the rigid actors and the SDK objects                      *)
(***************************************************************************)
\* C21: no operation on rigid actors dereferences the physx_actor of an actor
\* that has none: setLayersCanCollide, removeCollisionLayer, setActorLayer,
\* setIsDynamic, onEntityMoved and the write-back of a tick skip such an actor
C21_NullActorIsSkipped ==
    pfault = "none"

\* the SDK objects the components that exist wrap
Owned ==
    {m_actors[e].physx_actor : e \in {x \in PhysEntities : m_actors[x].exists}}
        \cup (IF m_terrains.exists THEN {m_terrains.m_actor} ELSE {})
        \cup (IF m_controllers.exists THEN {m_controllers.m_controller} ELSE {})
        \cup (IF m_joints.exists THEN {m_joints.physx} ELSE {})

\* C22: every SDK object that was created and is not released is the object
\* of a component that exists, and no SDK object is released twice
C22_DestroyedComponentsAreReleased ==
    \A id \in SdkIds :
        /\ sdk[id] = "alive" => id \in Owned
        /\ sdk[id] # "twice"

\* the last deserialize read field at least once
WasRead(field) == \E k \in DOMAIN load.reads : load.reads[k] = field

\* C23: the layer field of an actor, controller or heightfield is read
\* exactly when the version of the stream is LAYERS or newer, the ragdoll
\* block exactly when it is RAGDOLLS or newer, the joint block exactly when
\* it is JOINT_REFACTOR or newer
C23_FieldReadFromItsVersionOn ==
    load.done =>
        /\ load.shape.actors > 0 => (WasRead("actor.layer") <=> load.version >= LAYERS)
        /\ load.shape.controller = "used" =>
              (WasRead("controller.layer") <=> load.version >= LAYERS)
        /\ load.shape.terrain = "exists" =>
              (WasRead("terrain.layer") <=> load.version >= LAYERS)
        /\ WasRead("ragdolls.count") <=> load.version >= RAGDOLLS
        /\ WasRead("joints.count") <=> load.version >= JOINT_REFACTOR

\* C23 as the code has it: the layer field of an actor, controller or
\* heightfield is read exactly when the version of the stream is newer than
\* LAYERS, the ragdoll block exactly when it is newer than RAGDOLLS, the joint
\* block exactly when it is newer than JOINT_REFACTOR
C23_FieldReadAfterItsVersion ==
    load.done =>
        /\ load.shape.actors > 0 => (WasRead("actor.layer") <=> load.version > LAYERS)
        /\ load.shape.controller = "used" =>
              (WasRead("controller.layer") <=> load.version > LAYERS)
        /\ load.shape.terrain = "exists" =>
              (WasRead("terrain.layer") <=> load.version > LAYERS)
        /\ WasRead("ragdolls.count") <=> load.version > RAGDOLLS
        /\ WasRead("joints.count") <=> load.version > JOINT_REFACTOR
C23_Witness ==
    /\ load.done
    /\ load.version = RAGDOLLS
    /\ load.shape.actors > 0 /\ load.shape.controller = "used" /\ load.shape.terrain = "exists"
    /\ WasRead("actor.layer") /\ WasRead("controller.layer") /\ WasRead("terrain.layer")
    /\ ~WasRead("ragdolls.count")
    /\ ~WasRead("joints.count")

(***************************************************************************)
(* Properties of the property animator                                     *)
(***************************************************************************)
\* the keys 0 -> 0, 10 -> 1, 20 -> 0
ExampleCurve == [frames |-> <<0, 10, 20>>, values |-> <<0, 1, 0>>]

\* C24: for a frame f with frames[i-1] < f <= frames[i] the property animator
\* sets values[i-1] + (values[i] - values[i-1]) * (f - frames[i-1]) /
\* (frames[i] - frames[i-1]); the keys 0 -> 0, 10 -> 1, 20 -> 0 give 0.5 at
\* frame 5
C24_LinearInterpolation ==
    /\ \A i \in 2 .. Len(animator.animation.frames) :
          LET fr == animator.animation.frames
              va == animator.animation.values
          IN  (prop.set /\ fr[i - 1] < prop.frame /\ prop.frame <= fr[i]) =>
                 prop.num * (fr[i] - fr[i - 1])
                    = prop.den * (va[i - 1] * (fr[i] - fr[i - 1])
                                    + (va[i] - va[i - 1]) * (prop.frame - fr[i - 1]))
    /\ (prop.set /\ animator.animation = ExampleCurve /\ prop.frame = 5) =>
          2 * prop.num = prop.den
C24_Witness ==
    /\ prop.set
    /\ animator.animation = ExampleCurve
    /\ animator.time = 5
    /\ prop.frame = 5
    /\ 2 * prop.num = prop.den

(***************************************************************************)
(* Properties of the IK solver                                             *)
(***************************************************************************)
\* the target of the solved chain is within the summed segment length of
\* the root of the chain
Reachable ==
    Abs(ik_solve.target - ik_solve.before[1]) <= LenSum(ik_solve.before)

\* C25: after updateIK of a chain of collinear bones with a reachable target
\* and an iteration count >= 1, consecutive solved bones are as far from each
\* other as they were before
C25_SegmentLengthsKept ==
    (ik_solve.done /\ Reachable) =>
        \A i \in 1 .. (Len(ik_solve.pos) - 1) :
            /\ ik_solve.nan = {}
            /\ Abs(ik_solve.pos[i + 1] - ik_solve.pos[i]) = SegmentLengths(ik_solve.before)[i]

C31_EachIndexSampledOnce ==
    anim_jobs.phase = "waited" =>
        /\ anim_jobs.done = 0 .. (Min(16, anim_jobs.n) - 1)
        /\ \A x \in 0 .. (anim_jobs.n - 1) : anim_jobs.sampled[x] = 1
        /\ anim_jobs.beyond = {}

(***************************************************************************)
(* C32: updateAnimable terminates: whenever it is at its time-wrapping     *)
(* loop, the loop exits, whatever the length of the animation.             *)
(***************************************************************************)
C32_UpdateAnimableTerminates == (wrap.pc = "loop") ~> (wrap.pc = "done")


(***************************************************************************)
(* C35: in every state reachable through setIK the bones_count of a        *)
(* controller's IK chain is at most MAX_BONES_COUNT, the size of the       *)
(* arrays updateIK indexes with it.                                        *)
(***************************************************************************)
C35_BonesCountWithinCapacity ==
    \A e \in Entities :
        controllers[e].exists => controllers[e].ik.bones_count <= MAX_BONES_COUNT


(***************************************************************************)
(* C33: in a controller update chain k is given to updateIK if and only    *)
(* if the chains 0..k all have a weight other than 0: the chains are       *)
(* taken in index order and the first chain of weight 0 ends the loop.     *)
(***************************************************************************)
C33_ChainsSolvedUpToFirstZeroWeight ==
    LET called == {ik_tick.runs[i].chain : i \in DOMAIN ik_tick.runs} IN
    ik_tick.runs # <<>> =>
        /\ \A k \in 0 .. (IK_COUNT - 1) :
              k \in called <=> \A j \in 0 .. k : ik_tick.ik[j + 1].weight # 0
        /\ \A i \in DOMAIN ik_tick.runs : ik_tick.runs[i].chain = i - 1

C33_Witness ==
    /\ Len(ik_tick.runs) = 2
    /\ ik_tick.ik[3].weight = 0
    /\ ik_tick.ik[4].weight = 1

(***************************************************************************)
(* C34: a call of updateIK for a chain with a bone id that is no bone of   *)
(* the model leaves every position and rotation of the pose as it was.     *)
(***************************************************************************)
C34_UnresolvedChainLeavesPose ==
    \A i \in DOMAIN ik_tick.runs :
        (\E j \in DOMAIN ik_tick.runs[i].bones :
            ik_tick.runs[i].bones[j] \notin DOMAIN FilledPose.pos)
        => ik_tick.runs[i].after = ik_tick.runs[i].before

C34_Witness ==
    \E i \in DOMAIN ik_tick.runs :
        /\ i > 1
        /\ ik_tick.runs[i].bones = <<1, 0>>
        /\ ik_tick.runs[i].before # FilledPose
        /\ ik_tick.pose = ik_tick.runs[i].before


(***************************************************************************)
(* C36: after destroyRagdollBone has deleted a bone, neither ragdoll.root  *)
(* nor the parent, child, next or prev pointer of a remaining bone points  *)
(* to the deleted bone, and no later operation writes through a pointer    *)
(* to a deleted bone.                                                      *)
(***************************************************************************)
C36_NothingRefersToDestroyedBone ==
    /\ ~uaf
    /\ rlast.op = "destroy" =>
          /\ root # rlast.bone
          /\ \A x \in live :
                /\ bones[x].parent # rlast.bone
                /\ bones[x].child # rlast.bone
                /\ bones[x].next # rlast.bone
                /\ bones[x].prev # rlast.bone


(***************************************************************************)
(* C37: every queued force is handled exactly once by the next running,    *)
(* unpaused update: after that update the queue is empty, every force      *)
(* the update found queued for a dynamic actor with a body has had its     *)
(* one addForce, and no force ever gets a second addForce.                 *)
(***************************************************************************)
C37_QueuedForcesHandledOnce ==
    /\ \A id \in ForceIds : forces.applied[id] <= 1
    /\ forces.ran =>
          /\ forces.queue = <<>>
          /\ \A id \in forces.due : forces.applied[id] = 1


(***************************************************************************)
(* C38: the layer count stays in 0..32 and the layer of every actor,       *)
(* controller and heightfield stays an index of the 32-entry collision     *)
(* filter, so that updateFilterData never shifts by a negative layer.      *)
(***************************************************************************)
C38_LayersStayValid ==
    /\ layers.count \in 0 .. 32
    /\ ~layers.shift
    /\ \A kind \in {"actor", "controller", "terrain"} :
          layers[kind].exists => layers[kind].layer \in 0 .. 31

(***************************************************************************)
(* C39: after any calls of setLayersCanCollide on the all-collide table,   *)
(* canLayersCollide(a, b) equals canLayersCollide(b, a) for all layers in  *)
(* 0..31, and right after setLayersCanCollide(a, b, v) both equal v.       *)
(***************************************************************************)
C39_CollisionIsSymmetric ==
    /\ \A a \in Layers, b \in Layers : canLayersCollide(a, b) <=> canLayersCollide(b, a)
    /\ m_collision_filter.last.called =>
          /\ canLayersCollide(m_collision_filter.last.layer1, m_collision_filter.last.layer2)
                <=> m_collision_filter.last.can_collide
          /\ canLayersCollide(m_collision_filter.last.layer2, m_collision_filter.last.layer1)
                <=> m_collision_filter.last.can_collide

C39_Witness ==
    /\ m_collision_filter.last = [layer1 |-> 0, layer2 |-> 31, can_collide |-> FALSE,
                                  called |-> TRUE]
    /\ ~canLayersCollide(31, 0)
    /\ ~canLayersCollide(1, 31)
    /\ canLayersCollide(0, 0)


(***************************************************************************)
(* C40: the handle createComponent returns for an actor type equals the    *)
(* handle getComponent returns for the entity, and the actor accessors     *)
(* find the actor of that entity under it.                                 *)
(***************************************************************************)
C40_CreatedHandleIsTheComponentHandle ==
    actor_keys.last.called =>
        /\ actor_keys.last.cmp = getComponent(actor_keys.keys, actor_keys.last.entity)
        /\ ActorOf(actor_keys.keys, actor_keys.last.cmp) = actor_keys.last.entity

====
